---- MODULE Spec2Model ----
(***************************************************************************)
(* A model of the resume pipeline of AI-RESUME-FULLSTACK: upload and       *)
(* validation (resumes/views.py), text extraction and LLM parsing          *)
(* (resumes/services/resume_parser.py), the pydantic schemas               *)
(* (resumes/schemas.py), the ParsedResume lifecycle and the profile        *)
(* completion scorer (resumes/views.py, resumes/models.py), and the job    *)
(* requests apply_job, withdraw_application and save_job.                  *)
(*                                                                         *)
(* Python strings on which the code computes (lower, strip, split) are     *)
(* sequences of one-character strings.  Python None is the empty box <<>>  *)
(* and a present value v is the box <<v>>.  A dict is a function from its  *)
(* keys; the empty dict is the empty function.                             *)
(***************************************************************************)
EXTENDS Integers, Sequences, FiniteSets, TLC

VARIABLES users, resumes, completions, nextPk, req, jobs, applications,
          storage, saved, procs

vars == <<users, resumes, completions, nextPk, req, jobs, applications,
          storage, saved, procs>>

(***************************************************************************)
(* Bounds of the model.                                                    *)
(***************************************************************************)
\* ParsedResume rows ever created (primary keys 1..MaxResumes).
MaxResumes == 2

\* Registered users (primary keys 1..MaxUsers).
MaxUsers == 1

(***************************************************************************)
(* Python values.                                                          *)
(***************************************************************************)
None == <<>>

Some(v) == <<v>>

EmptyDict == [k \in {} |-> None]

\* dict.get(key, default)
Get(d, key, default) == IF key \in DOMAIN d THEN d[key] ELSE default

(***************************************************************************)
(* str operations, on sequences of characters.                             *)
(***************************************************************************)
LowerOf ==
    [A |-> "a", B |-> "b", C |-> "c", D |-> "d", E |-> "e", F |-> "f",
     G |-> "g", H |-> "h", I |-> "i", J |-> "j", K |-> "k", L |-> "l",
     M |-> "m", N |-> "n", O |-> "o", P |-> "p", Q |-> "q", R |-> "r",
     S |-> "s", T |-> "t", U |-> "u", V |-> "v", W |-> "w", X |-> "x",
     Y |-> "y", Z |-> "z"]

LowerChar(c) == IF c \in DOMAIN LowerOf THEN LowerOf[c] ELSE c

\* str.lower()
Lower(s) == [i \in 1..Len(s) |-> LowerChar(s[i])]

Whitespace == {" ", "\n", "\t"}

RECURSIVE LStrip(_)
LStrip(s) ==
    IF s # <<>> /\ Head(s) \in Whitespace THEN LStrip(Tail(s)) ELSE s

RECURSIVE RStrip(_)
RStrip(s) ==
    IF s # <<>> /\ s[Len(s)] \in Whitespace
    THEN RStrip(SubSeq(s, 1, Len(s) - 1))
    ELSE s

\* str.strip()
Strip(s) == RStrip(LStrip(s))

\* str.split(): the maximal runs of non-whitespace characters, in order.
RECURSIVE SplitWs(_, _, _)
SplitWs(s, cur, acc) ==
    IF s = <<>>
    THEN IF cur = <<>> THEN acc ELSE Append(acc, cur)
    ELSE IF Head(s) \in Whitespace
         THEN SplitWs(Tail(s), <<>>, IF cur = <<>> THEN acc ELSE Append(acc, cur))
         ELSE SplitWs(Tail(s), Append(cur, Head(s)), acc)

Split(s) == SplitWs(s, <<>>, <<>>)

\* str.split(sep): every segment between separators, empty ones included.
RECURSIVE SplitSep(_, _, _, _)
SplitSep(s, sep, cur, acc) ==
    IF s = <<>>
    THEN Append(acc, cur)
    ELSE IF Head(s) = sep
         THEN SplitSep(Tail(s), sep, <<>>, Append(acc, cur))
         ELSE SplitSep(Tail(s), sep, Append(cur, Head(s)), acc)

SplitOn(s, sep) == SplitSep(s, sep, <<>>, <<>>)

\* sep.join(parts)
RECURSIVE Join(_, _)
Join(parts, sep) ==
    IF parts = <<>> THEN <<>>
    ELSE IF Len(parts) = 1 THEN parts[1]
    ELSE parts[1] \o sep \o Join(Tail(parts), sep)

\* Python truthiness of a str, a list, an Optional value.
Truthy(v) == v # <<>>

(***************************************************************************)
(* The model service's reply, as the JSON it holds.  A JSON value is       *)
(* tagged: null, str, int, list, obj (an obj's v is a function from the    *)
(* keys present to JSON values).                                           *)
(***************************************************************************)
JNull == [t |-> "null", v |-> <<>>]

JStr(s) == [t |-> "str", v |-> s]

JInt(n) == [t |-> "int", v |-> n]

JList(xs) == [t |-> "list", v |-> xs]

JObj(f) == [t |-> "obj", v |-> f]

\* A required str field: present and a string.
ReqStrOk(obj, key) == key \in DOMAIN obj /\ obj[key].t = "str"

\* A List[str] field with default_factory=list: absent, or a list of strings
\* (null is not a list).
StrListOk(obj, key) ==
    key \notin DOMAIN obj
    \/ /\ obj[key].t = "list"
       /\ \A i \in 1..Len(obj[key].v) : obj[key].v[i].t = "str"

StrListVal(obj, key) ==
    IF key \in DOMAIN obj
    THEN [i \in 1..Len(obj[key].v) |-> obj[key].v[i].v]
    ELSE <<>>

\* An Optional[int] field with default None.
OptIntOk(obj, key) == key \notin DOMAIN obj \/ obj[key].t \in {"null", "int"}

OptIntVal(obj, key) ==
    IF key \in DOMAIN obj /\ obj[key].t = "int" THEN Some(obj[key].v) ELSE None

\* An Optional[str] field with default None.
OptStrOk(obj, key) == key \notin DOMAIN obj \/ obj[key].t \in {"null", "str"}

OptStrVal(obj, key) ==
    IF key \in DOMAIN obj /\ obj[key].t = "str" THEN Some(obj[key].v) ELSE None

(***************************************************************************)
(* resumes/schemas.py                                                      *)
(***************************************************************************)
Present == <<"P", "r", "e", "s", "e", "n", "t">>

\* WorkExperience.validate_end_date
validate_end_date(v) == IF ~Truthy(v) THEN Present ELSE v

WorkExperienceOk(j) ==
    /\ j.t = "obj"
    /\ ReqStrOk(j.v, "company")
    /\ ReqStrOk(j.v, "position")
    /\ ReqStrOk(j.v, "start_date")
    /\ ReqStrOk(j.v, "end_date")
    /\ StrListOk(j.v, "achievements")

WorkExperience(j) ==
    [company      |-> j.v.company.v,
     position     |-> j.v.position.v,
     start_date   |-> j.v.start_date.v,
     end_date     |-> validate_end_date(j.v.end_date.v),
     achievements |-> StrListVal(j.v, "achievements")]

EducationOk(j) ==
    /\ j.t = "obj"
    /\ ReqStrOk(j.v, "institution")
    /\ ReqStrOk(j.v, "degree")
    /\ StrListOk(j.v, "honors")

Education(j) ==
    [institution |-> j.v.institution.v,
     degree      |-> j.v.degree.v,
     honors      |-> StrListVal(j.v, "honors")]

\* ResumeParsedSchema.clean_skills: the loop over v.
RECURSIVE clean_skills_loop(_, _, _)
clean_skills_loop(v, seen, cleaned) ==
    IF v = <<>> THEN cleaned
    ELSE LET skill_clean == Strip(Head(v)) IN
         IF Truthy(skill_clean) /\ Lower(skill_clean) \notin seen
         THEN clean_skills_loop(Tail(v), seen \cup {Lower(skill_clean)},
                                Append(cleaned, skill_clean))
         ELSE clean_skills_loop(Tail(v), seen, cleaned)

\* ResumeParsedSchema.clean_skills
clean_skills(v) == IF Truthy(v) THEN clean_skills_loop(v, {}, <<>>) ELSE <<>>

\* A field_validator runs on a value the reply provides, not on the default.
CleanedListVal(obj, key) ==
    IF key \in DOMAIN obj THEN clean_skills(StrListVal(obj, key)) ELSE <<>>

\* experience: List[WorkExperience] with default_factory=list.
ExperienceOk(obj) ==
    "experience" \notin DOMAIN obj
    \/ /\ obj.experience.t = "list"
       /\ \A i \in 1..Len(obj.experience.v) : WorkExperienceOk(obj.experience.v[i])

ExperienceVal(obj) ==
    IF "experience" \in DOMAIN obj
    THEN [i \in 1..Len(obj.experience.v) |-> WorkExperience(obj.experience.v[i])]
    ELSE <<>>

\* education: List[Education] with default_factory=list.
EducationListOk(obj) ==
    "education" \notin DOMAIN obj
    \/ /\ obj.education.t = "list"
       /\ \A i \in 1..Len(obj.education.v) : EducationOk(obj.education.v[i])

EducationListVal(obj) ==
    IF "education" \in DOMAIN obj
    THEN [i \in 1..Len(obj.education.v) |-> Education(obj.education.v[i])]
    ELSE <<>>

\* The first field of ResumeParsedSchema the reply fails on ("" when none).
ResumeParsedSchemaError(obj) ==
    CASE ~ReqStrOk(obj, "name")                          -> "name"
      [] ~StrListOk(obj, "skills")                       -> "skills"
      [] ~StrListOk(obj, "technical_skills")             -> "technical_skills"
      [] ~StrListOk(obj, "soft_skills")                  -> "soft_skills"
      [] ~ExperienceOk(obj)                            -> "experience"
      [] ~OptIntOk(obj, "total_experience_years")        -> "total_experience_years"
      [] ~EducationListOk(obj)                         -> "education"
      [] ~OptStrOk(obj, "highest_education")             -> "highest_education"
      [] ~StrListOk(obj, "languages")                    -> "languages"
      [] OTHER                                           -> ""

\* ResumeParsedSchema(**obj).dict()
ResumeParsedSchema(obj) ==
    [name                   |-> obj.name.v,
     skills                 |-> CleanedListVal(obj, "skills"),
     technical_skills       |-> CleanedListVal(obj, "technical_skills"),
     soft_skills            |-> CleanedListVal(obj, "soft_skills"),
     experience             |-> ExperienceVal(obj),
     total_experience_years |-> OptIntVal(obj, "total_experience_years"),
     education              |-> EducationListVal(obj),
     highest_education      |-> OptStrVal(obj, "highest_education"),
     languages              |-> StrListVal(obj, "languages")]

\* The first field of SimpleResumeParsedSchema the reply fails on.
SimpleResumeParsedSchemaError(obj) ==
    CASE ~ReqStrOk(obj, "name")                   -> "name"
      [] ~StrListOk(obj, "skills")                -> "skills"
      [] ~StrListOk(obj, "experience")            -> "experience"
      [] ~StrListOk(obj, "education")             -> "education"
      [] ~OptIntOk(obj, "total_experience_years") -> "total_experience_years"
      [] OTHER                                    -> ""

\* SimpleResumeParsedSchema(**obj).dict()
SimpleResumeParsedSchema(obj) ==
    [name                   |-> obj.name.v,
     skills                 |-> StrListVal(obj, "skills"),
     experience             |-> StrListVal(obj, "experience"),
     education              |-> StrListVal(obj, "education"),
     total_experience_years |-> OptIntVal(obj, "total_experience_years")]

(***************************************************************************)
(* Exceptions.  str(e) is the pair of the message's fixed text and the     *)
(* value formatted into it.  A call's result is either a value or a raise. *)
(***************************************************************************)
Exc(type, text, arg) == [type |-> type, text |-> text, arg |-> arg]

NoExc == Exc("", "", <<>>)

\* str(e)
StrOf(e) == [text |-> e.text, arg |-> e.arg]

(***************************************************************************)
(* resumes/services/resume_parser.py                                       *)
(*                                                                         *)
(* A stored file is [readable, parts, cause]: whether the extraction       *)
(* library can read it, the text of its pages (PDF) or paragraphs (DOCX),  *)
(* and the library's error description when it cannot.  The model service  *)
(* is [raises, cause, json, obj]: whether invoke raises and with what      *)
(* description, whether the reply is JSON, and the object it holds.        *)
(***************************************************************************)
\* ResumeParser.__init__ without lines 23-24: any credential, a missing one
\* included, is accepted.  The variant C15 is checked against.
ResumeParserUnchecked(key) == [ok |-> TRUE, exc |-> NoExc]

\* ResumeParser.__init__: the credential check.
ResumeParserInit(key) ==
    IF ~Truthy(key)
    THEN [ok |-> FALSE,
          exc |-> Exc("ValueError",
                      "OpenAI API key not found. Please set GROQ_API_KEY in settings or .env",
                      <<>>)]
    ELSE [ok |-> TRUE, exc |-> NoExc]

RECURSIVE PdfPagesText(_)
PdfPagesText(pages) ==
    IF pages = <<>> THEN <<>>
    ELSE Head(pages) \o <<"\n">> \o PdfPagesText(Tail(pages))

\* ResumeParser.extract_text_from_pdf
extract_text_from_pdf(file) ==
    IF ~file.readable
    THEN [ok |-> FALSE, value |-> <<>>, opens |-> 1,
          exc |-> Exc("Exception", "Error reading PDF: ", file.cause)]
    ELSE [ok |-> TRUE, value |-> Strip(PdfPagesText(file.parts)), opens |-> 1,
          exc |-> NoExc]

\* ResumeParser.extract_text_from_docx
extract_text_from_docx(file) ==
    IF ~file.readable
    THEN [ok |-> FALSE, value |-> <<>>, opens |-> 1,
          exc |-> Exc("Exception", "Error reading DOCX: ", file.cause)]
    ELSE [ok |-> TRUE, value |-> Strip(Join(file.parts, <<"\n">>)), opens |-> 1,
          exc |-> NoExc]

\* extract_text comparing file_type as given, without .lower().  The
\* variant C14 is checked against.
extract_text_as_given(file, file_type) ==
    IF file_type = <<"p", "d", "f">>
    THEN extract_text_from_pdf(file)
    ELSE IF file_type \in {<<"d", "o", "c", "x">>, <<"d", "o", "c">>}
    THEN extract_text_from_docx(file)
    ELSE [ok |-> FALSE, value |-> <<>>, opens |-> 0,
          exc |-> Exc("ValueError", "Unsupported file type: ", file_type)]

\* ResumeParser.extract_text
extract_text(file, file_type) ==
    IF Lower(file_type) = <<"p", "d", "f">>
    THEN extract_text_from_pdf(file)
    ELSE IF Lower(file_type) \in {<<"d", "o", "c", "x">>, <<"d", "o", "c">>}
    THEN extract_text_from_docx(file)
    ELSE [ok |-> FALSE, value |-> <<>>, opens |-> 0,
          exc |-> Exc("ValueError", "Unsupported file type: ", file_type)]

\* PydanticOutputParser.parse followed by .dict(), under the schema chosen.
OutputParse(llm, use_simple) ==
    LET err == IF ~llm.json THEN "json"
               ELSE IF use_simple THEN SimpleResumeParsedSchemaError(llm.obj)
               ELSE ResumeParsedSchemaError(llm.obj)
    IN  IF err # ""
        THEN [ok |-> FALSE, value |-> EmptyDict,
              exc |-> Exc("Exception", "Error parsing LLM response: ", <<err>>)]
        ELSE [ok |-> TRUE, exc |-> NoExc,
              value |-> IF use_simple THEN SimpleResumeParsedSchema(llm.obj)
                        ELSE ResumeParsedSchema(llm.obj)]

\* parse_resume without its check of the extracted text (lines 78-79 left
\* out): the variant C7 is checked against.
parse_resume_unchecked(file, file_type, use_simple, llm) ==
    LET resume_text == extract_text(file, file_type) IN
    IF ~resume_text.ok
    THEN [ok |-> FALSE, value |-> EmptyDict, exc |-> resume_text.exc,
          llm_calls |-> 0, file_opens |-> resume_text.opens]
    ELSE IF llm.raises
    THEN [ok |-> FALSE, value |-> EmptyDict,
          exc |-> Exc("APIConnectionError", "", llm.cause),
          llm_calls |-> 1, file_opens |-> resume_text.opens]
    ELSE LET parsed == OutputParse(llm, use_simple) IN
         [ok |-> parsed.ok, value |-> parsed.value, exc |-> parsed.exc,
          llm_calls |-> 1, file_opens |-> resume_text.opens]

\* parse_resume invoking the model service a second time when the first
\* invoke raises.  The variant C19 is checked against.
parse_resume_retrying(file, file_type, use_simple, llm) ==
    LET resume_text == extract_text(file, file_type) IN
    IF ~resume_text.ok
    THEN [ok |-> FALSE, value |-> EmptyDict, exc |-> resume_text.exc,
          llm_calls |-> 0, file_opens |-> resume_text.opens]
    ELSE IF ~Truthy(Strip(resume_text.value))
    THEN [ok |-> FALSE, value |-> EmptyDict,
          exc |-> Exc("ValueError", "No text could be extracted from the resume", <<>>),
          llm_calls |-> 0, file_opens |-> resume_text.opens]
    ELSE IF llm.raises
    THEN [ok |-> FALSE, value |-> EmptyDict,
          exc |-> Exc("APIConnectionError", "", llm.cause),
          llm_calls |-> 2, file_opens |-> resume_text.opens]
    ELSE LET parsed == OutputParse(llm, use_simple) IN
         [ok |-> parsed.ok, value |-> parsed.value, exc |-> parsed.exc,
          llm_calls |-> 1, file_opens |-> resume_text.opens]

\* ResumeParser.parse_resume.  llm_calls counts self.llm.invoke,
\* file_opens the files handed to an extraction library.
parse_resume(file, file_type, use_simple, llm) ==
    LET resume_text == extract_text(file, file_type) IN
    IF ~resume_text.ok
    THEN [ok |-> FALSE, value |-> EmptyDict, exc |-> resume_text.exc,
          llm_calls |-> 0, file_opens |-> resume_text.opens]
    ELSE IF ~Truthy(Strip(resume_text.value))
    THEN [ok |-> FALSE, value |-> EmptyDict,
          exc |-> Exc("ValueError", "No text could be extracted from the resume", <<>>),
          llm_calls |-> 0, file_opens |-> resume_text.opens]
    ELSE IF llm.raises
    THEN [ok |-> FALSE, value |-> EmptyDict,
          exc |-> Exc("APIConnectionError", "", llm.cause),
          llm_calls |-> 1, file_opens |-> resume_text.opens]
    ELSE LET parsed == OutputParse(llm, use_simple) IN
         [ok |-> parsed.ok, value |-> parsed.value, exc |-> parsed.exc,
          llm_calls |-> 1, file_opens |-> resume_text.opens]

(***************************************************************************)
(* resumes/models.py, accounts/models.py: rows of the persistent store.    *)
(* users is the accounts_user table in primary-key order; resumes maps the *)
(* primary keys of the ParsedResume rows that exist to the rows (created_at*)
(* grows with the primary key); completions is the ProfileCompletion table.*)
(* A ParsedResume row's file and original_filename are set once at creation*)
(* and read only by the request that created it, which holds them;         *)
(* storage is the set of primary keys whose uploaded file is in the file   *)
(* storage.                                                                *)
(***************************************************************************)
\* ParsedResume(user=..., status=...) with the field defaults of the model.
ParsedResume(user, status) ==
    [user             |-> user,
     status           |-> status,
     parsed_data      |-> EmptyDict,
     skills           |-> <<>>,
     experience_years |-> None,
     education_level  |-> None,
     error_message    |-> None]

\* ParsedResume.file_extension
file_extension(original_filename) ==
    IF Truthy(original_filename)
    THEN LET parts == SplitOn(original_filename, ".")
         IN  Lower(parts[Len(parts)])
    ELSE <<>>

\* ParsedResume.skill_count
skill_count(resume) == IF Truthy(resume.skills) THEN Len(resume.skills) ELSE 0

\* ParsedResume.is_completed
is_completed(resume) == resume.status = "completed"

\* Model.save(): UPDATE the row with this primary key, INSERT it when absent.
Save(table, pk, inst) ==
    [k \in DOMAIN table \cup {pk} |-> IF k = pk THEN inst ELSE table[k]]

\* Model.delete()
Delete(table, pk) == [k \in DOMAIN table \ {pk} |-> table[k]]

\* user.resumes.filter(status='completed'), as primary keys.
CompletedResumes(table, user) ==
    {k \in DOMAIN table : table[k].user = user /\ table[k].status = "completed"}

\* .first() under ordering ['created_at']: the oldest of the keys.  The
\* variant C9 is checked against.
Oldest(keys) == CHOOSE k \in keys : \A j \in keys : k <= j

\* Meta.ordering = ['-created_at'] and .first(): the newest of the keys.
First(keys) == CHOOSE k \in keys : \A j \in keys : j <= k

\* The rows of the ProfileCompletion table that belong to user.
CompletionRows(table, user) == {i \in 1..Len(table) : table[i].user = user}

\* objects.create in place of update_or_create: a new row on every call.
\* The variant C10 is checked against.
always_create(table, user, defaults) ==
    Append(table, [user              |-> user,
                   completion_score  |-> defaults.completion_score,
                   missing_fields    |-> defaults.missing_fields,
                   suggestions       |-> defaults.suggestions])

\* ProfileCompletion.objects.update_or_create(user=user, defaults=defaults)
update_or_create(table, user, defaults) ==
    IF CompletionRows(table, user) # {}
    THEN LET i == CHOOSE i \in CompletionRows(table, user) : TRUE
         IN  [table EXCEPT ![i] = [user              |-> user,
                                   completion_score  |-> defaults.completion_score,
                                   missing_fields    |-> defaults.missing_fields,
                                   suggestions       |-> defaults.suggestions]]
    ELSE Append(table, [user              |-> user,
                        completion_score  |-> defaults.completion_score,
                        missing_fields    |-> defaults.missing_fields,
                        suggestions       |-> defaults.suggestions])

\* ProfileCompletion.objects.get_or_create(user=user,
\*                                         defaults={'completion_score': 0})
get_or_create(table, user) ==
    IF CompletionRows(table, user) # {}
    THEN table
    ELSE Append(table, [user |-> user, completion_score |-> 0,
                        missing_fields |-> <<>>, suggestions |-> <<>>])

\* The row get_or_create / refresh_from_db hands back.
CompletionOf(table, user) ==
    table[CHOOSE i \in CompletionRows(table, user) : TRUE]

(***************************************************************************)
(* resumes/views.py: the profile helpers.                                  *)
(***************************************************************************)
\* _update_user_profile: whether it changes and saves the user.
UpdatesUser(user, resume_data) ==
    /\ Truthy(Get(resume_data, "name", None))
    /\ ~(Truthy(user.first_name) \/ Truthy(user.last_name))
    /\ Split(resume_data.name) # <<>>

\* _update_user_profile testing `not user.first_name` alone: a user with
\* only a last name is overwritten.  The variant C18 is checked against.
_update_user_profile_first_unset(user, resume_data) ==
    IF /\ Truthy(Get(resume_data, "name", None))
       /\ ~Truthy(user.first_name)
       /\ Split(resume_data.name) # <<>>
    THEN LET name_parts == Split(resume_data.name)
         IN  [user EXCEPT
                !.first_name = name_parts[1],
                !.last_name  = IF Len(name_parts) > 1
                               THEN Join(Tail(name_parts), <<" ">>)
                               ELSE <<>>]
    ELSE user

\* _update_user_profile: the user it leaves.
_update_user_profile(user, resume_data) ==
    IF UpdatesUser(user, resume_data)
    THEN LET name_parts == Split(resume_data.name)
         IN  [user EXCEPT
                !.first_name = name_parts[1],
                !.last_name  = IF Len(name_parts) > 1
                               THEN Join(Tail(name_parts), <<" ">>)
                               ELSE <<>>]
    ELSE user

\* _calculate_profile_completion with the skills suggestion appended outside
\* the `if has_resume:` block, whenever the skills points are not given.
\* The variant C22 is checked against.
ProfileDefaults_suggesting_skills(user, pk, table) ==
    LET name_ok    == Truthy(user.first_name) /\ Truthy(user.last_name)
        email_ok   == Truthy(user.email)
        has_resume == CompletedResumes(table, pk) # {}
        skills_ok  == has_resume
                      /\ skill_count(table[First(CompletedResumes(table, pk))]) > 0
        role_ok    == Truthy(user.role)
    IN  [completion_score |->
              (IF name_ok THEN 20 ELSE 0) + (IF email_ok THEN 20 ELSE 0)
            + (IF has_resume THEN 30 ELSE 0) + (IF skills_ok THEN 15 ELSE 0)
            + (IF role_ok THEN 15 ELSE 0),
         missing_fields |->
              (IF name_ok THEN <<>> ELSE <<"name">>)
           \o (IF email_ok THEN <<>> ELSE <<"email">>)
           \o (IF has_resume THEN <<>> ELSE <<"resume">>)
           \o (IF role_ok THEN <<>> ELSE <<"role">>),
         suggestions |->
              (IF name_ok THEN <<>> ELSE <<"Complete your name">>)
           \o (IF email_ok THEN <<>> ELSE <<"Add your email address">>)
           \o (IF skills_ok THEN <<>> ELSE <<"Add more skills to your resume">>)
           \o (IF has_resume THEN <<>>
               ELSE <<"Upload your resume to boost your profile">>)
           \o (IF role_ok THEN <<>> ELSE <<"Select your role (Candidate/Recruiter)">>)]

\* _calculate_profile_completion: the score, missing fields and suggestions
\* it hands to update_or_create.  pk is the user's primary key.
ProfileDefaults(user, pk, table) ==
    LET name_ok    == Truthy(user.first_name) /\ Truthy(user.last_name)
        email_ok   == Truthy(user.email)
        has_resume == CompletedResumes(table, pk) # {}
        skills_ok  == has_resume
                      /\ skill_count(table[First(CompletedResumes(table, pk))]) > 0
        role_ok    == Truthy(user.role)
    IN  [completion_score |->
              (IF name_ok THEN 20 ELSE 0) + (IF email_ok THEN 20 ELSE 0)
            + (IF has_resume THEN 30 ELSE 0) + (IF skills_ok THEN 15 ELSE 0)
            + (IF role_ok THEN 15 ELSE 0),
         missing_fields |->
              (IF name_ok THEN <<>> ELSE <<"name">>)
           \o (IF email_ok THEN <<>> ELSE <<"email">>)
           \o (IF has_resume THEN <<>> ELSE <<"resume">>)
           \o (IF role_ok THEN <<>> ELSE <<"role">>),
         suggestions |->
              (IF name_ok THEN <<>> ELSE <<"Complete your name">>)
           \o (IF email_ok THEN <<>> ELSE <<"Add your email address">>)
           \o (IF has_resume
               THEN IF skills_ok THEN <<>> ELSE <<"Add more skills to your resume">>
               ELSE <<"Upload your resume to boost your profile">>)
           \o (IF role_ok THEN <<>> ELSE <<"Select your role (Candidate/Recruiter)">>)]

\* _calculate_profile_completion with suggestions.extend in place of a fresh
\* list: the new suggestions are added to the ones already stored.  The
\* variant C11 is checked against.
_calculate_appending(user, pk, table, done) ==
    LET defaults == ProfileDefaults(user, pk, table)
        stored   == IF CompletionRows(done, pk) # {}
                    THEN CompletionOf(done, pk).suggestions
                    ELSE <<>>
    IN  update_or_create(done, pk,
           [defaults EXCEPT !.suggestions =
               IF Len(stored) < 8 THEN stored \o @ ELSE @])

\* _calculate_profile_completion: the ProfileCompletion table it leaves.
_calculate_profile_completion(user, pk, table, done) ==
    update_or_create(done, pk, ProfileDefaults(user, pk, table))

(***************************************************************************)
(* The inputs the requests are drawn from.                                 *)
(***************************************************************************)
Ann == <<"A", "n", "n">>

Lee == <<"L", "e", "e">>

Candidate == <<"c", "a", "n", "d", "i", "d", "a", "t", "e">>

Python == <<"P", "y", "t", "h", "o", "n">>

python == <<"p", "y", "t", "h", "o", "n">>

SQL == <<"S", "Q", "L">>

\* POSTed registration forms: every field may be left empty.
Forms ==
    [first_name : {<<>>, Ann},
     last_name  : {<<>>, Lee},
     email      : {<<>>, <<"a", "@", "x">>},
     role       : {<<>>, Candidate}]

\* Names of uploaded files: cv.PDF, a.b.docx, r.doc, doc, cv.exe, pdf.txt, cv.
FileNames ==
    << <<"c", "v", ".", "P", "D", "F">>,
       <<"a", ".", "b", ".", "d", "o", "c", "x">>,
       <<"r", ".", "d", "o", "c">>,
       <<"d", "o", "c">>,
       <<"c", "v", ".", "e", "x", "e">>,
       <<"p", "d", "f", ".", "t", "x", "t">>,
       <<"c", "v", ".">> >>

\* upload_resume: the size limit, 5MB.
MaxUploadBytes == 5 * 1024 * 1024

FileSizes == {MaxUploadBytes, MaxUploadBytes + 1}

\* request.FILES.get('resume'): None, or an uploaded file.
Uploads ==
    {None} \cup {Some([name |-> FileNames[i], size |-> n]) :
                    i \in 1..Len(FileNames), n \in FileSizes}

\* Stored files: unreadable, no pages, blank pages, pages with text.
FileContents ==
    << [readable |-> FALSE, parts |-> <<>>, cause |-> <<"E", "O", "F">>],
       [readable |-> TRUE, parts |-> <<>>, cause |-> <<>>],
       [readable |-> TRUE, parts |-> << <<" ">>, <<"\t", " ">> >>, cause |-> <<>>],
       [readable |-> TRUE, parts |-> << <<" ", "c", "v">>, <<" ">> >>, cause |-> <<>>] >>

Reply(obj) == [raises |-> FALSE, cause |-> <<>>, json |-> TRUE, obj |-> obj]

\* What the model service does on invoke during an upload: raise, reply
\* with an object the schema rejects (skills: null), or reply with an
\* object it accepts (one with skills that differ in case only, one with a
\* name alone).
LlmBehaviours ==
    << [raises |-> TRUE, cause |-> <<"t", "i", "m", "e", "o", "u", "t">>,
        json |-> FALSE, obj |-> EmptyDict],
       Reply([name |-> JStr(Ann), skills |-> JNull]),
       Reply([name   |-> JStr(Ann \o <<" ", " ">> \o <<"M">> \o <<" ">> \o Lee),
              skills |-> JList(<<JStr(Python), JStr(python), JStr(SQL)>>),
              experience |-> JList(<<JStr(<<"D", "e", "v">>)>>),
              education  |-> JList(<<JStr(<<"B", "S", "c">>)>>),
              total_experience_years |-> JInt(3)]),
       Reply([name |-> JStr(<<"B", "o">>)]) >>

\* A work-experience entry of a reply, without its end_date.
Job2020 ==
    [company    |-> JStr(<<"X">>),
     position   |-> JStr(<<"D", "e", "v">>),
     start_date |-> JStr(<<"2", "0", "2", "0">>)]

\* A reply with a name and one work-experience entry.
ExperienceReply(entry) ==
    Reply([name |-> JStr(Ann), experience |-> JList(<<JObj(entry)>>)])

\* Further replies, for the parser on its own: text that is not JSON, a
\* blank name with an empty skills list, no name, objects shaped for the rich
\* schema, and replies whose one work-experience entry has no end_date, a
\* null one, the end_date 2021 and a whitespace end_date.
ParserBehaviours ==
    LlmBehaviours \o
    << [raises |-> FALSE, cause |-> <<>>, json |-> FALSE, obj |-> EmptyDict],
       Reply([name   |-> JStr(<<" ">>),
              skills |-> JList(<<>>),
              total_experience_years |-> JNull]),
       Reply([skills |-> JList(<<JStr(SQL)>>)]),
       Reply([name   |-> JStr(Ann),
              skills |-> JList(<<JStr(<<" ", "G", "o">>), JStr(<<"g", "o", " ">>),
                                 JStr(<<" ">>)>>),
              technical_skills |-> JList(<<JStr(SQL), JStr(<<"s", "q", "l">>)>>),
              soft_skills |-> JNull,
              experience |-> JList(<<JObj([company    |-> JStr(<<"X">>),
                                           position   |-> JStr(<<"D", "e", "v">>),
                                           start_date |-> JStr(<<"2", "0">>),
                                           end_date   |-> JStr(<<>>)])>>),
              education |-> JList(<<JObj([institution |-> JStr(<<"U">>),
                                          degree      |-> JStr(<<"B", "S", "c">>)])>>)]),
       Reply([name   |-> JStr(Ann),
              skills |-> JList(<<JStr(<<" ", "G", "o">>), JStr(<<"g", "o", " ">>),
                                 JStr(<<" ">>)>>),
              technical_skills |-> JList(<<JStr(SQL), JStr(<<"s", "q", "l">>)>>),
              languages |-> JList(<<JStr(<<"E", "N">>), JStr(<<"E", "N">>)>>),
              experience |-> JList(<<JObj([company    |-> JStr(<<"X">>),
                                           position   |-> JStr(<<"D", "e", "v">>),
                                           start_date |-> JStr(<<"2", "0">>),
                                           end_date   |-> JStr(<<>>)])>>),
              education |-> JList(<<JObj([institution |-> JStr(<<"U">>),
                                          degree      |-> JStr(<<"B", "S", "c">>)])>>)]) >>
    \o << ExperienceReply(Job2020),
          ExperienceReply(Job2020 @@ ("end_date" :> JNull)),
          ExperienceReply(Job2020 @@ ("end_date" :> JStr(<<"2", "0", "2", "1">>))),
          ExperienceReply(Job2020 @@ ("end_date" :> JStr(<<" ">>))) >>

(***************************************************************************)
(* The state machine.  req is the request being handled: the view (op),    *)
(* the logged-in user, and for an upload the in-memory ParsedResume        *)
(* instance inst, the credential it read from the settings (api_key), the  *)
(* parser's result and what the request has called and opened so far.  A   *)
(* request that has run to its return statement is "done" and      *)
(* holds the outcome and the detail of its response until respond hands    *)
(* them back.  Spec handles one request at a time.                         *)
(***************************************************************************)
Idle ==
    [pc |-> "idle", op |-> "", user |-> 0, pk |-> 0, upload |-> None,
     inst |-> ParsedResume(0, "pending"), resume_data |-> EmptyDict,
     api_key |-> None, parser_calls |-> 0, llm_calls |-> 0, file_opens |-> 0,
     outcome |-> "", detail |-> EmptyDict]

\* A request at its return statement.
Done(op, user, outcome, pk, detail) ==
    [Idle EXCEPT !.pc = "done", !.op = op, !.user = user, !.outcome = outcome,
                 !.pk = pk, !.detail = detail]

UserIds == 1..Len(users)

Init ==
    /\ users = <<>>
    /\ resumes = EmptyDict
    /\ completions = <<>>
    /\ nextPk = 1
    /\ req = Idle
    /\ jobs = EmptyDict
    /\ applications = <<>>
    /\ storage = {}
    /\ saved = <<>>
    /\ procs = <<>>

\* accounts/views.py register_view, POST.
register_view(form) ==
    /\ req.pc = "idle"
    /\ (\E u \in UserIds : users[u].email = form.email) \/ Len(users) < MaxUsers
    /\ IF \E u \in UserIds : users[u].email = form.email
       THEN /\ req' = Done("register", 0, "email_taken", 0, EmptyDict)
            /\ UNCHANGED users
       ELSE /\ users' = Append(users, form)
            /\ req' = Done("register", Len(users) + 1, "created", 0, EmptyDict)
    /\ UNCHANGED <<resumes, completions, nextPk>>
    /\ UNCHANGED <<jobs, applications>>
    /\ UNCHANGED <<storage, saved, procs>>

\* upload_resume: the extension of the uploaded file's name.
UploadExtension(name) ==
    LET parts == SplitOn(name, ".") IN Lower(parts[Len(parts)])

\* upload_resume: the validation message, "" when the upload is accepted.
UploadError(upload) ==
    IF ~Truthy(upload) THEN "Please select a file to upload"
    ELSE IF UploadExtension(upload[1].name)
              \notin {<<"p", "d", "f">>, <<"d", "o", "c", "x">>, <<"d", "o", "c">>}
    THEN "Only PDF and DOCX files are supported"
    ELSE IF upload[1].size > MaxUploadBytes
    THEN "File size must be less than 5MB"
    ELSE ""

\* upload_resume, POST, up to ParsedResume.objects.create (lines 18-43).
upload_resume(user, upload) ==
    /\ req.pc = "idle"
    /\ IF UploadError(upload) # ""
       THEN /\ req' = [Done("upload", user, "validation_error", 0,
                            [text |-> UploadError(upload), arg |-> <<>>])
                       EXCEPT !.upload = upload]
            /\ UNCHANGED <<resumes, nextPk, storage>>
       ELSE /\ nextPk <= MaxResumes
            /\ resumes' = Save(resumes, nextPk, ParsedResume(user, "pending"))
            /\ storage' = storage \cup {nextPk}
            /\ nextPk' = nextPk + 1
            /\ req' = [Idle EXCEPT !.pc = "begin", !.op = "upload", !.user = user,
                                   !.pk = nextPk, !.upload = upload,
                                   !.inst = ParsedResume(user, "pending")]
    /\ UNCHANGED <<users, completions>>
    /\ UNCHANGED <<jobs, applications>>
    /\ UNCHANGED <<saved, procs>>

\* _process_resume, lines 65-66: mark the instance processing and save it.
process_begin ==
    /\ req.pc = "begin"
    /\ LET inst == [req.inst EXCEPT !.status = "processing"] IN
       /\ resumes' = Save(resumes, req.pk, inst)
       /\ req' = [req EXCEPT !.pc = "parse", !.inst = inst]
    /\ UNCHANGED <<users, completions, nextPk>>
    /\ UNCHANGED <<jobs, applications>>
    /\ UNCHANGED <<storage, saved, procs>>

\* _process_resume, lines 78-89: the instance with the parsed data copied in.
Completed(inst, resume_data) ==
    LET education == Get(resume_data, "education", <<>>) IN
    [inst EXCEPT
       !.parsed_data      = resume_data,
       !.skills           = Get(resume_data, "skills", <<>>),
       !.experience_years = Get(resume_data, "total_experience_years", Some(0)),
       !.education_level  = IF Truthy(education) THEN Some(education[1])
                            ELSE inst.education_level,
       !.status           = "completed"]

\* The except clause without line 99: the error detail is not stored.  The
\* variant C3 is checked against.
FailedWithoutDetail(inst, e) == [inst EXCEPT !.status = "failed"]

\* The except clause without line 98: the status is not changed.  The
\* variant C5 is checked against.
FailedKeepsStatus(inst, e) == [inst EXCEPT !.error_message = Some(StrOf(e))]

\* _process_resume, lines 97-100: the instance the except clause saves.
Failed(inst, e) ==
    [inst EXCEPT !.status = "failed", !.error_message = Some(StrOf(e))]

\* _process_resume line 101 and upload_resume lines 50-52: the failure is
\* re-raised and the view answers with its description.
UploadFailed(e, parser_calls, llm_calls) ==
    [Done("upload", req.user, "processing_error", req.pk, StrOf(e))
     EXCEPT !.upload = req.upload, !.inst = Failed(req.inst, e),
            !.api_key = req.api_key, !.file_opens = req.file_opens,
            !.parser_calls = parser_calls, !.llm_calls = llm_calls]

\* _process_resume, lines 69-89, and on a raise lines 97-101: build the
\* parser with the configured key, parse the stored file, save the result.
process_parse(key, file, llm) ==
    /\ req.pc = "parse"
    /\ LET parser == ResumeParserInit(key)
           parsed == parse_resume(file, file_extension(req.upload[1].name), TRUE, llm)
       IN  IF ~parser.ok
           THEN /\ resumes' = Save(resumes, req.pk, Failed(req.inst, parser.exc))
                /\ req' = [UploadFailed(parser.exc, 0, 0) EXCEPT !.api_key = Some(key)]
           ELSE IF ~parsed.ok
           THEN /\ resumes' = Save(resumes, req.pk, Failed(req.inst, parsed.exc))
                /\ req' = [UploadFailed(parsed.exc, 1, parsed.llm_calls)
                           EXCEPT !.api_key = Some(key),
                                  !.file_opens = parsed.file_opens]
           ELSE /\ resumes' = Save(resumes, req.pk, Completed(req.inst, parsed.value))
                /\ req' = [req EXCEPT !.pc = "profile",
                                      !.inst = Completed(req.inst, parsed.value),
                                      !.resume_data = parsed.value,
                                      !.api_key = Some(key),
                                      !.parser_calls = 1,
                                      !.llm_calls = parsed.llm_calls,
                                      !.file_opens = parsed.file_opens]
    /\ UNCHANGED <<users, completions, nextPk>>
    /\ UNCHANGED <<jobs, applications>>
    /\ UNCHANGED <<storage, saved, procs>>

\* The exceptions the persistence layer raises when it rejects a write.
SaveError == Exc("DataError", "value too long for type character varying(255)", <<>>)

UpsertError == Exc("OperationalError", "database is locked", <<>>)

\* _process_resume with lines 92 and 95 exchanged: the recalculation runs
\* before the auto-fill.  The variant C16 is checked against.
process_profile_recalculating_first(fault) ==
    /\ req.pc = "profile"
    /\ fault = "user" => UpdatesUser(users[req.user], req.resume_data)
    /\ LET user == _update_user_profile(users[req.user], req.resume_data) IN
       CASE fault = "completion" ->
              /\ resumes' = Save(resumes, req.pk, Failed(req.inst, UpsertError))
              /\ req' = UploadFailed(UpsertError, req.parser_calls, req.llm_calls)
              /\ UNCHANGED <<users, completions>>
         [] fault = "user" ->
              /\ completions' =
                    _calculate_profile_completion(users[req.user], req.user,
                                                  resumes, completions)
              /\ resumes' = Save(resumes, req.pk, Failed(req.inst, SaveError))
              /\ req' = UploadFailed(SaveError, req.parser_calls, req.llm_calls)
              /\ UNCHANGED users
         [] OTHER ->
              /\ completions' =
                    _calculate_profile_completion(users[req.user], req.user,
                                                  resumes, completions)
              /\ users' = [users EXCEPT ![req.user] = user]
              /\ req' = [req EXCEPT !.pc = "done", !.outcome = "success"]
              /\ UNCHANGED resumes
    /\ UNCHANGED nextPk
    /\ UNCHANGED <<jobs, applications>>
    /\ UNCHANGED <<storage, saved, procs>>

\* _process_resume, lines 92-95, and on a raise lines 97-101.  fault names
\* the write the persistence layer rejects: "" (none), "user" (user.save()
\* in _update_user_profile) or "completion" (update_or_create in
\* _calculate_profile_completion).
process_profile(fault) ==
    /\ req.pc = "profile"
    /\ fault = "user" => UpdatesUser(users[req.user], req.resume_data)
    /\ LET user == _update_user_profile(users[req.user], req.resume_data) IN
       CASE fault = "user" ->
              /\ resumes' = Save(resumes, req.pk, Failed(req.inst, SaveError))
              /\ req' = UploadFailed(SaveError, req.parser_calls, req.llm_calls)
              /\ UNCHANGED <<users, completions>>
         [] fault = "completion" ->
              /\ users' = [users EXCEPT ![req.user] = user]
              /\ resumes' = Save(resumes, req.pk, Failed(req.inst, UpsertError))
              /\ req' = UploadFailed(UpsertError, req.parser_calls, req.llm_calls)
              /\ UNCHANGED completions
         [] OTHER ->
              /\ users' = [users EXCEPT ![req.user] = user]
              /\ completions' =
                    _calculate_profile_completion(user, req.user, resumes, completions)
              /\ req' = [req EXCEPT !.pc = "done", !.outcome = "success"]
              /\ UNCHANGED resumes
    /\ UNCHANGED nextPk
    /\ UNCHANGED <<jobs, applications>>
    /\ UNCHANGED <<storage, saved, procs>>

\* resume.delete(): the row goes, and JobApplication.resume (SET_NULL) is
\* cleared in the applications that referred to it.
ApplicationsWithout(table, pk) ==
    [i \in 1..Len(table) |->
       IF table[i].resume = Some(pk) THEN [table[i] EXCEPT !.resume = None]
       ELSE table[i]]

\* delete_resume with the recalculation moved ahead of resume.delete().  The
\* variant C21 is checked against.
delete_resume_recalculating_first(user, pk) ==
    /\ req.pc = "idle"
    /\ IF pk \in DOMAIN resumes /\ resumes[pk].user = user
       THEN /\ storage' = storage \ {pk}
            /\ completions' =
                  _calculate_profile_completion(users[user], user, resumes, completions)
            /\ resumes' = Delete(resumes, pk)
            /\ applications' = ApplicationsWithout(applications, pk)
            /\ req' = [Done("delete_resume", user, "deleted", pk, EmptyDict)
                       EXCEPT !.inst = resumes[pk]]
       ELSE /\ req' = Done("delete_resume", user, "404", pk, EmptyDict)
            /\ UNCHANGED <<resumes, completions, applications, storage>>
    /\ UNCHANGED <<users, nextPk, jobs, saved, procs>>

\* delete_resume, POST: os.remove of the stored file, resume.delete(), then
\* _calculate_profile_completion on what is left.  The request keeps the
\* instance it deleted (the local `resume`) until it returns.
delete_resume(user, pk) ==
    /\ req.pc = "idle"
    /\ IF pk \in DOMAIN resumes /\ resumes[pk].user = user
       THEN /\ storage' = storage \ {pk}
            /\ resumes' = Delete(resumes, pk)
            /\ applications' = ApplicationsWithout(applications, pk)
            /\ completions' =
                  _calculate_profile_completion(users[user], user, resumes', completions)
            /\ req' = [Done("delete_resume", user, "deleted", pk, EmptyDict)
                       EXCEPT !.inst = resumes[pk]]
       ELSE /\ req' = Done("delete_resume", user, "404", pk, EmptyDict)
            /\ UNCHANGED <<resumes, completions, applications, storage>>
    /\ UNCHANGED <<users, nextPk, jobs, saved, procs>>

\* profile_completion; refresh is request.GET.get('refresh').
profile_completion(user, refresh) ==
    /\ req.pc = "idle"
    /\ LET created == CompletionRows(completions, user) = {}
           got     == get_or_create(completions, user)
       IN  /\ completions' =
                IF created \/ refresh
                THEN _calculate_profile_completion(users[user], user, resumes, got)
                ELSE got
           /\ req' = Done("profile_completion", user,
                          IF created \/ refresh THEN "recalculated" ELSE "ok", 0,
                          CompletionOf(completions', user))
    /\ UNCHANGED <<users, resumes, nextPk>>
    /\ UNCHANGED <<jobs, applications>>
    /\ UNCHANGED <<storage, saved, procs>>

\* api_resume_status
api_resume_status(user, pk) ==
    /\ req.pc = "idle"
    /\ req' = IF pk \in DOMAIN resumes /\ resumes[pk].user = user
              THEN Done("api_resume_status", user, "ok", pk,
                        [status        |-> resumes[pk].status,
                         error_message |-> resumes[pk].error_message,
                         is_completed  |-> is_completed(resumes[pk])])
              ELSE Done("api_resume_status", user, "404", pk, EmptyDict)
    /\ UNCHANGED <<users, resumes, completions, nextPk>>
    /\ UNCHANGED <<jobs, applications>>
    /\ UNCHANGED <<storage, saved, procs>>

\* api_profile_score
api_profile_score(user) ==
    /\ req.pc = "idle"
    /\ completions' = get_or_create(completions, user)
    /\ req' = Done("api_profile_score", user, "ok", 0,
                   CompletionOf(completions', user))
    /\ UNCHANGED <<users, resumes, nextPk>>
    /\ UNCHANGED <<jobs, applications>>
    /\ UNCHANGED <<storage, saved, procs>>

\* The response leaves; the next request can be taken.
respond ==
    /\ req.pc = "done"
    /\ req' = Idle
    /\ UNCHANGED <<users, resumes, completions, nextPk>>
    /\ UNCHANGED <<jobs, applications>>
    /\ UNCHANGED <<storage, saved, procs>>

Next ==
    \/ \E form \in Forms : register_view(form)
    \/ \E user \in UserIds, upload \in Uploads : upload_resume(user, upload)
    \/ process_begin
    \/ \E key \in {<<>>, <<"k">>}, f \in 1..Len(FileContents),
          l \in 1..Len(LlmBehaviours) :
          process_parse(key, FileContents[f], LlmBehaviours[l])
    \/ \E fault \in {"", "user", "completion"} : process_profile(fault)
    \/ \E user \in UserIds, pk \in 1..MaxResumes : delete_resume(user, pk)
    \/ \E user \in UserIds, refresh \in BOOLEAN : profile_completion(user, refresh)
    \/ \E user \in UserIds, pk \in 1..MaxResumes : api_resume_status(user, pk)
    \/ \E user \in UserIds : api_profile_score(user)
    \/ respond

Spec == Init /\ [][Next]_vars

(***************************************************************************)
(* The parser on its own: ResumeParser(api_key).parse_resume(...) called   *)
(* with any stored file, declared type, schema flag and model-service      *)
(* behaviour.  The finished call holds its inputs and its result.          *)
(***************************************************************************)
\* Declared file types: pdf, PDF, docx, Doc, exe, and the empty string.
FileTypes ==
    << <<"p", "d", "f">>, <<"P", "D", "F">>, <<"d", "o", "c", "x">>,
       <<"D", "o", "c">>, <<"e", "x", "e">>, <<>> >>

parse_call(key, file, file_type, use_simple, llm) ==
    /\ req.pc = "idle"
    /\ LET parser == ResumeParserInit(key)
           parsed == parse_resume(file, file_type, use_simple, llm)
           call   == [key |-> key, file |-> file, file_type |-> file_type,
                      use_simple |-> use_simple, llm |-> llm]
       IN  req' =
             IF ~parser.ok
             THEN Done("parse_resume", 0, "raised", 0,
                       [call |-> call, value |-> EmptyDict, exc |-> StrOf(parser.exc),
                        llm_calls |-> 0, file_opens |-> 0])
             ELSE Done("parse_resume", 0, IF parsed.ok THEN "returned" ELSE "raised", 0,
                       [call |-> call, value |-> parsed.value, exc |-> StrOf(parsed.exc),
                        llm_calls |-> parsed.llm_calls,
                        file_opens |-> parsed.file_opens])
    /\ UNCHANGED <<users, resumes, completions, nextPk>>
    /\ UNCHANGED <<jobs, applications>>
    /\ UNCHANGED <<storage, saved, procs>>

NextParse ==
    \/ \E key \in {<<>>, <<"k">>}, f \in 1..Len(FileContents),
          t \in 1..Len(FileTypes), use_simple \in BOOLEAN,
          l \in 1..Len(ParserBehaviours) :
          parse_call(key, FileContents[f], FileTypes[t], use_simple, ParserBehaviours[l])
    \/ respond

SpecParse == Init /\ [][NextParse]_vars

(***************************************************************************)
(* The application flow: apply_job for a candidate with one completed      *)
(* resume and one job.  jobs maps a slug to the Job row's required_skills  *)
(* and applications_count; applications is the JobApplication table.  A    *)
(* match score is held in hundredths (66.67 is 6667).                      *)
(***************************************************************************)
\* The longest skill list of a resume or a job.
MaxSkills == 3

Go == <<"G", "o">>

Rust == <<"R", "u", "s", "t">>

Recruiter == <<"r", "e", "c", "r", "u", "i", "t", "e", "r">>

Skills == {Python, SQL, Go, Rust}

\* set(list)
SetOf(list) == {list[i] : i \in 1..Len(list)}

\* list(a_set): the elements once each, in the order the set iterates them,
\* which the language does not fix.
ListsOf(set) ==
    {list \in [1..Cardinality(set) -> set] : SetOf(list) = set}

\* ParsedResume.skills as the model service may give it (repeats included).
SkillLists == UNION {[1..n -> Skills] : n \in 0..MaxSkills}

\* Job.required_skills: a list without repeats.
RequiredLists == {list \in SkillLists : Cardinality(SetOf(list)) = Len(list)}

\* JobApplication.objects.create(job, applicant, resume, status='pending')
JobApplication(job, applicant, resume) ==
    [job |-> job, applicant |-> applicant, resume |-> resume,
     status |-> "pending", match_score |-> None,
     matching_skills |-> <<>>, missing_skills |-> <<>>]

\* round(x, 2) of the fraction num / den, in hundredths: the nearest
\* hundredth, the even one on a tie.
Round2(num, den) ==
    LET q == num \div den
        r == num % den
    IN  IF 2 * r < den THEN q
        ELSE IF 2 * r > den THEN q + 1
        ELSE IF q % 2 = 0 THEN q ELSE q + 1

\* apply_job, lines 453-458: round((len(matching) / len(required)) * 100, 2)
MatchScore(matching_skills, required_skills) ==
    IF Truthy(required_skills)
    THEN Round2(Len(matching_skills) * 100 * 100, Len(required_skills))
    ELSE 0

\* apply_job, lines 448-461: the application with the match fields filled
\* in, given the lists the two set expressions produce.
Scored(application, required_skills, matching_skills, missing_skills) ==
    [application EXCEPT
       !.match_score     = Some(MatchScore(matching_skills, required_skills)),
       !.matching_skills = matching_skills,
       !.missing_skills  = missing_skills]

\* The lookup without user=request.user: any completed row is found.  The
\* variant C27 is checked against.
ResumeFoundAnyOwner(user, resume_id) ==
    /\ resume_id \in DOMAIN resumes
    /\ resumes[resume_id].status = "completed"

\* get_object_or_404(ParsedResume, id=resume_id, user=request.user,
\*                   status='completed') finds a row.
ResumeFound(user, resume_id) ==
    /\ resume_id \in DOMAIN resumes
    /\ resumes[resume_id].user = user
    /\ resumes[resume_id].status = "completed"

\* apply_job, POST; resume_id is request.POST.get('resume_id').
apply_job(user, slug, resume_id) ==
    /\ req.pc = "idle"
    /\ IF slug \notin DOMAIN jobs
       THEN /\ req' = Done("apply_job", user, "404", 0, EmptyDict)
            /\ UNCHANGED <<jobs, applications>>
       ELSE IF users[user].role # Candidate
       THEN /\ req' = Done("apply_job", user, "not_candidate", 0, EmptyDict)
            /\ UNCHANGED <<jobs, applications>>
       ELSE IF \E i \in 1..Len(applications) :
                  applications[i].job = slug /\ applications[i].applicant = user
       THEN /\ req' = Done("apply_job", user, "already_applied", 0, EmptyDict)
            /\ UNCHANGED <<jobs, applications>>
       ELSE IF Truthy(resume_id) /\ ~ResumeFound(user, resume_id[1])
       THEN /\ req' = Done("apply_job", user, "404", 0, EmptyDict)
            /\ UNCHANGED <<jobs, applications>>
       ELSE LET application == JobApplication(slug, user, resume_id)
                required    == jobs[slug].required_skills
                skills      == IF Truthy(resume_id)
                               THEN resumes[resume_id[1]].skills ELSE <<>>
            IN  /\ \E matching_skills \in ListsOf(SetOf(skills) \cap SetOf(required)),
                      missing_skills \in ListsOf(SetOf(required) \ SetOf(skills)) :
                      applications' =
                         Append(applications,
                                IF Truthy(resume_id) /\ Truthy(skills)
                                THEN Scored(application, required,
                                            matching_skills, missing_skills)
                                ELSE application)
                /\ jobs' = [jobs EXCEPT ![slug].applications_count = @ + 1]
                /\ req' = Done("apply_job", user, "applied", Len(applications) + 1,
                               EmptyDict)
    /\ UNCHANGED <<users, resumes, completions, nextPk>>
    /\ UNCHANGED <<storage, saved, procs>>

\* A completed ParsedResume row whose reply listed the given skills.
CompletedWith(user, skills) ==
    Completed([ParsedResume(user, "pending") EXCEPT !.status = "processing"],
              SimpleResumeParsedSchema(
                 [name   |-> JStr(Ann),
                  skills |-> JList([i \in 1..Len(skills) |-> JStr(skills[i])])]))

\* One registered user, a candidate or a recruiter, with one completed
\* resume, and one job; no application yet.
InitApply ==
    /\ \E role \in {Candidate, Recruiter} :
          users = <<[first_name |-> Ann, last_name |-> Lee,
                     email |-> <<"a", "@", "x">>, role |-> role]>>
    /\ \E skills \in SkillLists : resumes = 1 :> CompletedWith(1, skills)
    /\ completions = <<>>
    /\ nextPk = 2
    /\ req = Idle
    /\ \E required \in RequiredLists :
          jobs = "dev" :> [required_skills |-> required, applications_count |-> 0]
    /\ applications = <<>>
    /\ storage = {1}
    /\ saved = <<>>
    /\ procs = <<>>

NextApply ==
    \/ \E user \in UserIds, slug \in {"dev", "ops"}, resume_id \in {None, Some(1), Some(2)} :
          apply_job(user, slug, resume_id)
    \/ respond

SpecApply == InitApply /\ [][NextApply]_vars

(***************************************************************************)
(* Requests in flight at the same time.  procs maps each request-handling  *)
(* instance to what it holds in memory: its position pc, the requesting    *)
(* user, the row it works on, what its queries returned and the values it  *)
(* is about to store.  A step is one statement that reads or writes the    *)
(* persistent store; the store is the only state the instances share.      *)
(* wrote_at is history, not program state: the position of the instance's  *)
(* last ProfileCompletion write in the order of all such writes.           *)
(***************************************************************************)
\* Request-handling instances running side by side.
Workers == {1, 2}

NoDefaults == [completion_score |-> 0, missing_fields |-> <<>>, suggestions |-> <<>>]

\* An instance with no request.
Waiting ==
    [pc |-> "idle", op |-> "", user |-> 0, pk |-> 0, has_resume |-> FALSE,
     defaults |-> NoDefaults, wrote_at |-> 0, outcome |-> ""]

\* The instance has run to its return statement.
Returned(proc, outcome) == [proc EXCEPT !.pc = "done", !.outcome = outcome]

\* The number of ProfileCompletion writes made so far, plus one.
NextWrite ==
    1 + Cardinality({procs[q].wrote_at : q \in Workers} \ {0})

\* _calculate_profile_completion, lines 131-170, given what the two queries
\* returned: has_resume is exists() (line 150), skills_ok is the test of
\* line 156 on first() (line 155).
DefaultsFrom(user, has_resume, skills_ok) ==
    LET name_ok  == Truthy(user.first_name) /\ Truthy(user.last_name)
        email_ok == Truthy(user.email)
        role_ok  == Truthy(user.role)
    IN  [completion_score |->
              (IF name_ok THEN 20 ELSE 0) + (IF email_ok THEN 20 ELSE 0)
            + (IF has_resume THEN 30 ELSE 0)
            + (IF has_resume /\ skills_ok THEN 15 ELSE 0)
            + (IF role_ok THEN 15 ELSE 0),
         missing_fields |->
              (IF name_ok THEN <<>> ELSE <<"name">>)
           \o (IF email_ok THEN <<>> ELSE <<"email">>)
           \o (IF has_resume THEN <<>> ELSE <<"resume">>)
           \o (IF role_ok THEN <<>> ELSE <<"role">>),
         suggestions |->
              (IF name_ok THEN <<>> ELSE <<"Complete your name">>)
           \o (IF email_ok THEN <<>> ELSE <<"Add your email address">>)
           \o (IF has_resume
               THEN IF skills_ok THEN <<>> ELSE <<"Add more skills to your resume">>
               ELSE <<"Upload your resume to boost your profile">>)
           \o (IF role_ok THEN <<>> ELSE <<"Select your role (Candidate/Recruiter)">>)]

\* An UPDATE of the completion_score column alone: the two lists of the row
\* stay as another calculation left them.  The variant C23 is checked
\* against.
UpdatedScoreOnly(table, user, defaults) ==
    LET i == CHOOSE i \in CompletionRows(table, user) : TRUE
    IN  [table EXCEPT ![i].completion_score = defaults.completion_score]

\* update_or_create on a row that exists: setattr of every default and
\* obj.save(), one UPDATE of the row.
Updated(table, user, defaults) ==
    LET i == CHOOSE i \in CompletionRows(table, user) : TRUE
    IN  [table EXCEPT ![i] = [user              |-> user,
                              completion_score  |-> defaults.completion_score,
                              missing_fields    |-> defaults.missing_fields,
                              suggestions       |-> defaults.suggestions]]

\* delete_resume, line 208 and, for a POST, lines 212-213: get_object_or_404
\* and the removal of the stored file.
delete_resume_remove(p, user, pk) ==
    /\ procs[p].pc = "idle"
    /\ IF pk \in DOMAIN resumes /\ resumes[pk].user = user
       THEN /\ storage' = storage \ {pk}
            /\ procs' = [procs EXCEPT ![p] =
                  [Waiting EXCEPT !.pc = "delete", !.op = "delete_resume",
                                  !.user = user, !.pk = pk]]
       ELSE /\ procs' = [procs EXCEPT ![p] =
                  [Returned(Waiting, "404") EXCEPT !.op = "delete_resume",
                                                   !.user = user, !.pk = pk]]
            /\ UNCHANGED storage
    /\ UNCHANGED <<users, resumes, completions, nextPk, req, jobs, applications, saved>>

\* delete_resume, line 215: resume.delete().
delete_resume_delete(p) ==
    /\ procs[p].pc = "delete"
    /\ resumes' = Delete(resumes, procs[p].pk)
    /\ applications' = ApplicationsWithout(applications, procs[p].pk)
    /\ procs' = [procs EXCEPT ![p].pc = "exists"]
    /\ UNCHANGED <<users, completions, nextPk, req, jobs, storage, saved>>

\* profile_completion, lines 232-238: get_or_create, and the test that
\* decides whether to recalculate.
profile_completion_get(p, user, refresh) ==
    /\ procs[p].pc = "idle"
    /\ LET created == CompletionRows(completions, user) = {} IN
       /\ completions' = get_or_create(completions, user)
       /\ procs' = [procs EXCEPT ![p] =
             IF created \/ refresh
             THEN [Waiting EXCEPT !.pc = "exists", !.op = "profile_completion",
                                  !.user = user]
             ELSE [Returned(Waiting, "ok") EXCEPT !.op = "profile_completion",
                                                  !.user = user]]
    /\ UNCHANGED <<users, resumes, nextPk, req, jobs, applications, storage, saved>>

\* _calculate_profile_completion, line 150: the exists() query.
calculate_exists(p) ==
    /\ procs[p].pc = "exists"
    /\ LET has_resume == CompletedResumes(resumes, procs[p].user) # {} IN
       procs' = [procs EXCEPT
          ![p].has_resume = has_resume,
          ![p].pc = IF has_resume THEN "first" ELSE "upsert",
          ![p].defaults = DefaultsFrom(users[procs[p].user], has_resume, FALSE)]
    /\ UNCHANGED <<users, resumes, completions, nextPk, req, jobs, applications,
                   storage, saved>>

\* _calculate_profile_completion, lines 155-156: the first() query, which
\* returns None when no completed row is left by now.
calculate_first(p) ==
    /\ procs[p].pc = "first"
    /\ LET rows      == CompletedResumes(resumes, procs[p].user)
           skills_ok == rows # {} /\ skill_count(resumes[First(rows)]) > 0
       IN  procs' = [procs EXCEPT
              ![p].pc = "upsert",
              ![p].defaults = DefaultsFrom(users[procs[p].user], TRUE, skills_ok)]
    /\ UNCHANGED <<users, resumes, completions, nextPk, req, jobs, applications,
                   storage, saved>>

\* update_or_create, first half: the row is looked up and, when absent,
\* inserted with the defaults; user is unique (OneToOneField), so of two
\* inserts one is refused and that call goes on to update the row it finds.
update_or_create_get(p) ==
    /\ procs[p].pc = "upsert"
    /\ IF CompletionRows(completions, procs[p].user) = {}
       THEN /\ completions' =
                  update_or_create(completions, procs[p].user, procs[p].defaults)
            /\ procs' = [procs EXCEPT ![p] =
                  [Returned(procs[p], "recalculated") EXCEPT !.wrote_at = NextWrite]]
       ELSE /\ procs' = [procs EXCEPT ![p].pc = "save"]
            /\ UNCHANGED completions
    /\ UNCHANGED <<users, resumes, nextPk, req, jobs, applications, storage, saved>>

\* update_or_create, second half: the found row is saved with the defaults.
update_or_create_save(p) ==
    /\ procs[p].pc = "save"
    /\ completions' = Updated(completions, procs[p].user, procs[p].defaults)
    /\ procs' = [procs EXCEPT ![p] =
          [Returned(procs[p], "recalculated") EXCEPT !.wrote_at = NextWrite]]
    /\ UNCHANGED <<users, resumes, nextPk, req, jobs, applications, storage, saved>>

\* One user with every profile field set or without a role, two completed
\* resumes with or without skills, a ProfileCompletion row or none.
InitRecalc ==
    /\ \E role \in {Candidate, <<>>} :
          users = <<[first_name |-> Ann, last_name |-> Lee,
                     email |-> <<"a", "@", "x">>, role |-> role]>>
    /\ \E older, newer \in {<<>>, <<Python>>} :
          resumes = (1 :> CompletedWith(1, older)) @@ (2 :> CompletedWith(1, newer))
    /\ \E table \in {<<>>, get_or_create(<<>>, 1)} : completions = table
    /\ nextPk = 3
    /\ req = Idle
    /\ jobs = EmptyDict
    /\ applications = <<>>
    /\ storage = {1, 2}
    /\ saved = <<>>
    /\ procs = [p \in Workers |-> Waiting]

NextRecalc ==
    \E p \in Workers :
       \/ \E pk \in 1..2 : delete_resume_remove(p, 1, pk)
       \/ delete_resume_delete(p)
       \/ \E refresh \in BOOLEAN : profile_completion_get(p, 1, refresh)
       \/ calculate_exists(p)
       \/ calculate_first(p)
       \/ update_or_create_get(p)
       \/ update_or_create_save(p)

SpecRecalc == InitRecalc /\ [][NextRecalc]_vars

(***************************************************************************)
(* apply_job and withdraw_application in flight at the same time.  An      *)
(* instance holds the Job it loaded (job), the JobApplication instance it  *)
(* created or loaded (inst) and that row's primary key (app), its position *)
(* in the applications table.                                              *)
(***************************************************************************)
NoJob == [required_skills |-> <<>>, applications_count |-> 0]

\* An instance with no request.
NoRequest ==
    [pc |-> "idle", op |-> "", user |-> 0, slug |-> "", resume_id |-> None,
     job |-> NoJob, skills |-> <<>>, app |-> 0,
     inst |-> JobApplication("", 0, None), outcome |-> ""]

\* The JobApplication rows of a job and an applicant.
ApplicationRows(table, slug, user) ==
    {i \in 1..Len(table) : table[i].job = slug /\ table[i].applicant = user}

\* An INSERT into a table without the unique_together constraint: it is
\* never refused.  The variant C24 is checked against.
InsertUnconstrained(table, row) == [ok |-> TRUE, table |-> Append(table, row)]

\* JobApplication.objects.create: the INSERT, refused with IntegrityError
\* when a row of the same job and applicant exists (Meta.unique_together).
Insert(table, row) ==
    IF ApplicationRows(table, row.job, row.applicant) # {}
    THEN [ok |-> FALSE, table |-> table]
    ELSE [ok |-> TRUE, table |-> Append(table, row)]

\* apply_job, lines 412-417: the Job is loaded and the role is tested.
apply_job_get(p, user, slug) ==
    /\ procs[p].pc = "idle"
    /\ procs' = [procs EXCEPT ![p] =
          IF slug \notin DOMAIN jobs
          THEN [NoRequest EXCEPT !.pc = "done", !.op = "apply_job", !.user = user,
                                 !.slug = slug, !.outcome = "404"]
          ELSE IF users[user].role # Candidate
          THEN [NoRequest EXCEPT !.pc = "done", !.op = "apply_job", !.user = user,
                                 !.slug = slug, !.outcome = "not_candidate"]
          ELSE [NoRequest EXCEPT !.pc = "exists", !.op = "apply_job", !.user = user,
                                 !.slug = slug, !.job = jobs[slug]]]
    /\ UNCHANGED <<users, resumes, completions, nextPk, req, jobs, applications,
                   storage, saved>>

\* apply_job, lines 420-422: the "already applied" query.
apply_job_exists(p) ==
    /\ procs[p].pc = "exists"
    /\ procs' = [procs EXCEPT ![p] =
          IF ApplicationRows(applications, procs[p].slug, procs[p].user) # {}
          THEN [procs[p] EXCEPT !.pc = "done", !.outcome = "already_applied"]
          ELSE [procs[p] EXCEPT !.pc = "resume"]]
    /\ UNCHANGED <<users, resumes, completions, nextPk, req, jobs, applications,
                   storage, saved>>

\* apply_job, lines 424-436, POST: the resume named in the form is looked up.
apply_job_resume(p, resume_id) ==
    /\ procs[p].pc = "resume"
    /\ procs' = [procs EXCEPT ![p] =
          IF Truthy(resume_id) /\ ~ResumeFound(procs[p].user, resume_id[1])
          THEN [procs[p] EXCEPT !.pc = "done", !.outcome = "404"]
          ELSE [procs[p] EXCEPT
                  !.pc = "create", !.resume_id = resume_id,
                  !.skills = IF Truthy(resume_id)
                             THEN resumes[resume_id[1]].skills ELSE <<>>]]
    /\ UNCHANGED <<users, resumes, completions, nextPk, req, jobs, applications,
                   storage, saved>>

\* apply_job, lines 439-445: JobApplication.objects.create.  A refused
\* insert raises out of the view.
apply_job_create(p) ==
    /\ procs[p].pc = "create"
    /\ LET row == JobApplication(procs[p].slug, procs[p].user, procs[p].resume_id)
           ins == Insert(applications, row)
       IN  /\ applications' = ins.table
           /\ procs' = [procs EXCEPT ![p] =
                 IF ~ins.ok
                 THEN [procs[p] EXCEPT !.pc = "done", !.outcome = "IntegrityError"]
                 ELSE [procs[p] EXCEPT
                         !.pc = IF Truthy(procs[p].resume_id) /\ Truthy(procs[p].skills)
                                THEN "score" ELSE "count",
                         !.app = Len(ins.table), !.inst = row]]
    /\ UNCHANGED <<users, resumes, completions, nextPk, req, jobs, storage, saved>>

\* apply_job, lines 448-461: the match fields are set on the instance and
\* application.save() writes the instance's row.
apply_job_score(p) ==
    /\ procs[p].pc = "score"
    /\ LET required == procs[p].job.required_skills
           skills   == procs[p].skills
       IN  \E matching_skills \in ListsOf(SetOf(skills) \cap SetOf(required)),
              missing_skills \in ListsOf(SetOf(required) \ SetOf(skills)) :
              LET inst == Scored(procs[p].inst, required, matching_skills,
                                 missing_skills)
              IN  /\ applications' = [applications EXCEPT ![procs[p].app] = inst]
                  /\ procs' = [procs EXCEPT ![p].pc = "count", ![p].inst = inst]
    /\ UNCHANGED <<users, resumes, completions, nextPk, req, jobs, storage, saved>>

\* apply_job, lines 464-465: the loaded Job's counter is incremented and
\* job.save(update_fields=['applications_count']) writes it.
apply_job_count(p) ==
    /\ procs[p].pc = "count"
    /\ jobs' = [jobs EXCEPT ![procs[p].slug].applications_count =
                                procs[p].job.applications_count + 1]
    /\ procs' = [procs EXCEPT
          ![p].pc = "done", ![p].outcome = "applied",
          ![p].job.applications_count = @ + 1]
    /\ UNCHANGED <<users, resumes, completions, nextPk, req, applications,
                   storage, saved>>

\* withdraw_application, lines 545-549: get_object_or_404 on the id and the
\* requesting user.
withdraw_application_get(p, user, application_id) ==
    /\ procs[p].pc = "idle"
    /\ procs' = [procs EXCEPT ![p] =
          IF /\ application_id \in 1..Len(applications)
             /\ applications[application_id].applicant = user
          THEN [NoRequest EXCEPT !.pc = "withdraw", !.op = "withdraw_application",
                                 !.user = user, !.app = application_id,
                                 !.slug = applications[application_id].job,
                                 !.inst = applications[application_id]]
          ELSE [NoRequest EXCEPT !.pc = "done", !.op = "withdraw_application",
                                 !.user = user, !.app = application_id,
                                 !.outcome = "404"]]
    /\ UNCHANGED <<users, resumes, completions, nextPk, req, jobs, applications,
                   storage, saved>>

\* withdraw_application, lines 553-554, POST: the status is set on the
\* instance and application.save() writes the instance's row.
withdraw_application_save(p) ==
    /\ procs[p].pc = "withdraw"
    /\ LET inst == [procs[p].inst EXCEPT !.status = "withdrawn"] IN
       /\ applications' = [applications EXCEPT ![procs[p].app] = inst]
       /\ procs' = [procs EXCEPT ![p].pc = "job", ![p].inst = inst]
    /\ UNCHANGED <<users, resumes, completions, nextPk, req, jobs, storage, saved>>

\* withdraw_application, line 557: application.job loads the Job.
withdraw_application_job(p) ==
    /\ procs[p].pc = "job"
    /\ procs' = [procs EXCEPT ![p].pc = "decrement", ![p].job = jobs[procs[p].slug]]
    /\ UNCHANGED <<users, resumes, completions, nextPk, req, jobs, applications,
                   storage, saved>>

\* max(0, n - 1)
Max0(n) == IF n > 0 THEN n ELSE 0

\* withdraw_application, lines 558-559: the loaded Job's counter is
\* decremented, not below zero, and written.
withdraw_application_count(p) ==
    /\ procs[p].pc = "decrement"
    /\ jobs' = [jobs EXCEPT ![procs[p].slug].applications_count =
                                Max0(procs[p].job.applications_count - 1)]
    /\ procs' = [procs EXCEPT ![p].pc = "done", ![p].outcome = "withdrawn"]
    /\ UNCHANGED <<users, resumes, completions, nextPk, req, applications,
                   storage, saved>>

\* The response leaves; the instance can take the next request.
finish(p) ==
    /\ procs[p].pc = "done"
    /\ procs' = [procs EXCEPT ![p] = NoRequest]
    /\ UNCHANGED <<users, resumes, completions, nextPk, req, jobs, applications,
                   storage, saved>>

\* Two candidates and a recruiter, a completed resume with one skill owned
\* by the first candidate, one job that no one has applied to.
InitRace ==
    /\ users = <<[first_name |-> Ann, last_name |-> Lee,
                  email |-> <<"a", "@", "x">>, role |-> Candidate],
                 [first_name |-> <<"B", "o">>, last_name |-> Lee,
                  email |-> <<"b", "@", "x">>, role |-> Candidate],
                 [first_name |-> <<"C", "y">>, last_name |-> Lee,
                  email |-> <<"c", "@", "x">>, role |-> Recruiter]>>
    /\ resumes = 1 :> CompletedWith(1, <<Python>>)
    /\ completions = <<>>
    /\ nextPk = 2
    /\ req = Idle
    /\ jobs = "dev" :> [required_skills |-> <<Python, Go>>, applications_count |-> 0]
    /\ applications = <<>>
    /\ storage = {1}
    /\ saved = <<>>
    /\ procs = [p \in Workers |-> NoRequest]

\* The steps of apply_job.
ApplySteps(p) ==
    \/ \E user \in UserIds, slug \in {"dev", "ops"} : apply_job_get(p, user, slug)
    \/ apply_job_exists(p)
    \/ \E resume_id \in {None, Some(1)} : apply_job_resume(p, resume_id)
    \/ apply_job_create(p)
    \/ apply_job_score(p)
    \/ apply_job_count(p)

\* The steps of withdraw_application.
WithdrawSteps(p) ==
    \/ \E user \in UserIds, application_id \in 1..2 :
          withdraw_application_get(p, user, application_id)
    \/ withdraw_application_save(p)
    \/ withdraw_application_job(p)
    \/ withdraw_application_count(p)

NextRace == \E p \in Workers : ApplySteps(p) \/ WithdrawSteps(p) \/ finish(p)

SpecRace == InitRace /\ [][NextRace]_vars

\* apply_job alone, in flight at the same time as another apply_job.
NextApplyRace == \E p \in Workers : ApplySteps(p) \/ finish(p)

SpecApplyRace == InitRace /\ [][NextApplyRace]_vars

(***************************************************************************)
(* The job requests one at a time: apply_job, withdraw_application and     *)
(* save_job for the users, the resume and the job of InitRace.  saved is   *)
(* the SavedJob table.                                                     *)
(***************************************************************************)
\* withdraw_application, POST.
withdraw_application(user, application_id) ==
    /\ req.pc = "idle"
    /\ IF /\ application_id \in 1..Len(applications)
          /\ applications[application_id].applicant = user
       THEN LET slug == applications[application_id].job IN
            /\ applications' =
                  [applications EXCEPT ![application_id].status = "withdrawn"]
            /\ jobs' = [jobs EXCEPT ![slug].applications_count = Max0(@ - 1)]
            /\ req' = Done("withdraw_application", user, "withdrawn",
                           application_id, EmptyDict)
       ELSE /\ req' = Done("withdraw_application", user, "404", application_id,
                           EmptyDict)
            /\ UNCHANGED <<jobs, applications>>
    /\ UNCHANGED <<users, resumes, completions, nextPk, storage, saved, procs>>

\* The SavedJob rows of a user and a job.
SavedRows(table, user, slug) ==
    {i \in 1..Len(table) : table[i].user = user /\ table[i].job = slug}

\* SavedJob.objects.create in place of get_or_create, on a table without the
\* unique_together constraint: a row is added on every call.  The variant
\* C28 is checked against.
SavedJobCreate(table, user, slug) ==
    [created |-> TRUE, table |-> Append(table, [user |-> user, job |-> slug])]

\* SavedJob.objects.get_or_create(user=request.user, job=job)
SavedJobGetOrCreate(table, user, slug) ==
    IF SavedRows(table, user, slug) # {}
    THEN [created |-> FALSE, table |-> table]
    ELSE [created |-> TRUE, table |-> Append(table, [user |-> user, job |-> slug])]

\* saved_job.delete(): the row found by get_or_create goes.
SavedJobDelete(table, user, slug) ==
    LET i == CHOOSE i \in SavedRows(table, user, slug) : TRUE
    IN  SubSeq(table, 1, i - 1) \o SubSeq(table, i + 1, Len(table))

\* save_job
save_job(user, slug) ==
    /\ req.pc = "idle"
    /\ IF slug \notin DOMAIN jobs
       THEN /\ req' = Done("save_job", user, "404", 0, EmptyDict)
            /\ UNCHANGED saved
       ELSE LET got == SavedJobGetOrCreate(saved, user, slug) IN
            IF ~got.created
            THEN /\ saved' = SavedJobDelete(got.table, user, slug)
                 /\ req' = Done("save_job", user, "ok", 0,
                                [saved |-> FALSE, message |-> "Job removed from saved"])
            ELSE /\ saved' = got.table
                 /\ req' = Done("save_job", user, "ok", 0,
                                [saved |-> TRUE, message |-> "Job saved successfully"])
    /\ UNCHANGED <<users, resumes, completions, nextPk, jobs, applications,
                   storage, procs>>

NextJobs ==
    \/ \E user \in UserIds, slug \in {"dev", "ops"}, resume_id \in {None, Some(1)} :
          apply_job(user, slug, resume_id)
    \/ \E user \in UserIds, application_id \in 1..2 :
          withdraw_application(user, application_id)
    \/ \E user \in UserIds, slug \in {"dev", "ops"} : save_job(user, slug)
    \/ respond

SpecJobs == InitRace /\ [][NextJobs]_vars

(***************************************************************************)
(* Two users side by side in the store, their requests one at a time: the  *)
(* resume requests of Spec with resume_detail, and apply_job and           *)
(* withdraw_application.                                                   *)
(***************************************************************************)
\* resume_detail
resume_detail(user, pk) ==
    /\ req.pc = "idle"
    /\ req' = IF pk \in DOMAIN resumes /\ resumes[pk].user = user
              THEN Done("resume_detail", user, "ok", pk,
                        [resume |-> resumes[pk], parsed_data |-> resumes[pk].parsed_data])
              ELSE Done("resume_detail", user, "404", pk, EmptyDict)
    /\ UNCHANGED <<users, resumes, completions, nextPk>>
    /\ UNCHANGED <<jobs, applications>>
    /\ UNCHANGED <<storage, saved, procs>>

\* A candidate with a name who owns a completed resume, a candidate without
\* a name who owns none, and one job.
InitOwners ==
    /\ users = <<[first_name |-> Ann, last_name |-> Lee,
                  email |-> <<"a", "@", "x">>, role |-> Candidate],
                 [first_name |-> <<>>, last_name |-> <<>>,
                  email |-> <<"b", "@", "x">>, role |-> Candidate]>>
    /\ resumes = 1 :> CompletedWith(1, <<Python>>)
    /\ completions = <<>>
    /\ nextPk = 2
    /\ req = Idle
    /\ jobs = "dev" :> [required_skills |-> <<Python, Go>>, applications_count |-> 0]
    /\ applications = <<>>
    /\ storage = {1}
    /\ saved = <<>>
    /\ procs = <<>>

NextOwners ==
    \/ \E user \in UserIds,
          upload \in {None, Some([name |-> FileNames[1], size |-> MaxUploadBytes])} :
          upload_resume(user, upload)
    \/ process_begin
    \/ \E key \in {<<>>, <<"k">>}, f \in 1..Len(FileContents),
          l \in 1..Len(LlmBehaviours) :
          process_parse(key, FileContents[f], LlmBehaviours[l])
    \/ \E fault \in {"", "user", "completion"} : process_profile(fault)
    \/ \E user \in UserIds, pk \in 1..MaxResumes : resume_detail(user, pk)
    \/ \E user \in UserIds, pk \in 1..MaxResumes : delete_resume(user, pk)
    \/ \E user \in UserIds, refresh \in BOOLEAN : profile_completion(user, refresh)
    \/ \E user \in UserIds, pk \in 1..MaxResumes : api_resume_status(user, pk)
    \/ \E user \in UserIds : api_profile_score(user)
    \/ \E user \in UserIds, slug \in {"dev"}, resume_id \in {None, Some(1), Some(2)} :
          apply_job(user, slug, resume_id)
    \/ \E user \in UserIds, application_id \in 1..2 :
          withdraw_application(user, application_id)
    \/ respond

SpecOwners == InitOwners /\ [][NextOwners]_vars

(***************************************************************************)
(* Properties.                                                             *)
(***************************************************************************)
\* The status changes of a ParsedResume row that _process_resume is meant to make.
PermittedTransitions ==
    {<<"pending", "processing">>, <<"processing", "completed">>,
     <<"processing", "failed">>}

\* C1: the only status changes of a ParsedResume row that ever occur are
\* pending->processing, processing->completed and processing->failed; a
\* completed row never becomes failed and no row returns to pending.
C1_StatusTransitions ==
    [][\A pk \in DOMAIN resumes \cap DOMAIN resumes' :
          resumes'[pk].status # resumes[pk].status
          => <<resumes[pk].status, resumes'[pk].status>> \in PermittedTransitions]_vars

\* C2: in every persisted state, a row whose status is not completed has
\* the default empty parsed payload, skill list, experience-years and
\* education-level, and a row whose status is not failed has a null error
\* detail.
C2_FieldsFollowStatus ==
    \A pk \in DOMAIN resumes :
       /\ resumes[pk].status # "completed"
          => /\ resumes[pk].parsed_data = EmptyDict
             /\ resumes[pk].skills = <<>>
             /\ resumes[pk].experience_years = None
             /\ resumes[pk].education_level = None
       /\ resumes[pk].status # "failed" => resumes[pk].error_message = None

\* The descriptions of the failures of the parsing step: no credential, an
\* unreadable file, a blank document, a model-service error, a reply the
\* schema rejects.
ParseFailureTexts ==
    {"OpenAI API key not found. Please set GROQ_API_KEY in settings or .env",
     "Error reading PDF: ", "Error reading DOCX: ",
     "No text could be extracted from the resume", "",
     "Error parsing LLM response: "}

\* C3: when the parsing step of _process_resume fails, the row ends failed,
\* its error detail is the description of that failure, its parsed payload
\* is still the empty mapping, and the failure is re-raised to the caller.
C3_ParseFailure ==
    [][(req.pc = "parse" /\ req'.pc = "done")
       => /\ req'.outcome = "processing_error"
          /\ req'.detail.text \in ParseFailureTexts
          /\ req.pk \in DOMAIN resumes'
          /\ resumes'[req.pk].status = "failed"
          /\ resumes'[req.pk].error_message = Some(req'.detail)
          /\ resumes'[req.pk].parsed_data = EmptyDict]_vars

\* C3 witness: the model-service call raised; the row is failed with the
\* service's error as its detail and the upload answers with that error.
C3_Witness ==
    /\ req.pc = "done" /\ req.op = "upload" /\ req.outcome = "processing_error"
    /\ req.llm_calls = 1
    /\ req.detail.arg = <<"t", "i", "m", "e", "o", "u", "t">>
    /\ resumes[req.pk].status = "failed"
    /\ resumes[req.pk].error_message = Some(req.detail)

\* No two entries of a list are equal under case-insensitive comparison.
NoCaseDuplicates(list) ==
    \A i, j \in 1..Len(list) : i # j => Lower(list[i]) # Lower(list[j])

\* C4: after _process_resume completes successfully, the stored flattened
\* skill list holds no two entries equal under case-insensitive comparison
\* (skills ["Python","python","SQL"] are stored as ["Python","SQL"]).
C4_StoredSkillsDeduplicated ==
    (req.pc = "done" /\ req.op = "upload" /\ req.outcome = "success")
    => /\ resumes[req.pk].status = "completed"
       /\ NoCaseDuplicates(resumes[req.pk].skills)

RECURSIVE AfterLastDot(_)
AfterLastDot(name) ==
    IF name = <<>> THEN None
    ELSE IF name[Len(name)] = "."  THEN Some(<<>>)
    ELSE LET rest == AfterLastDot(SubSeq(name, 1, Len(name) - 1))
         IN  IF rest = None THEN None
             ELSE Some(Append(rest[1], LowerChar(name[Len(name)])))

\* Whether an uploaded file is of an accepted type and size.
Acceptable(file) ==
    /\ AfterLastDot(file.name)
          \in {Some(<<"p", "d", "f">>), Some(<<"d", "o", "c", "x">>),
               Some(<<"d", "o", "c">>)}
    /\ file.size <= 5 * 1024 * 1024

\* C6: an upload whose extension (the lowercased text after the last dot)
\* is not pdf, docx or doc, or whose size exceeds 5 MiB, is rejected before
\* any row is created and without the parser or the model service being
\* invoked; an upload of accepted type and size is never rejected.
C6_UploadValidation ==
    (req.op = "upload" /\ Truthy(req.upload))
    => IF Acceptable(req.upload[1])
       THEN req.outcome # "validation_error"
       ELSE /\ req.pc = "done" /\ req.outcome = "validation_error"
            /\ req.pk = 0 /\ req.parser_calls = 0 /\ req.llm_calls = 0

\* Every character of a text is whitespace (the empty text included).
Blank(text) == \A i \in 1..Len(text) : text[i] \in Whitespace

\* The text of a stored file's pages or paragraphs, before any trimming.
RawText(file) == Join(file.parts, <<"\n">>)

\* C7: when the text extracted from the file is empty or whitespace-only,
\* parse_resume fails and the model service is invoked zero times.
C7_BlankTextNoModelCall ==
    (/\ req.pc = "done" /\ req.op = "parse_resume"
     /\ req.detail.call.file.readable
     /\ Blank(RawText(req.detail.call.file)))
    => /\ req.outcome = "raised"
       /\ req.detail.value = EmptyDict
       /\ req.detail.llm_calls = 0

\* C7 witness: a readable PDF of blank pages, a configured key and a model
\* service that would have replied; the call raised the blank-document
\* error.
C7_Witness ==
    /\ req.pc = "done" /\ req.op = "parse_resume" /\ req.outcome = "raised"
    /\ req.detail.call.file.readable
    /\ req.detail.call.file.parts # <<>>
    /\ Blank(RawText(req.detail.call.file))
    /\ Lower(req.detail.call.file_type) = <<"p", "d", "f">>
    /\ ~req.detail.call.llm.raises /\ req.detail.call.llm.json
    /\ req.detail.exc.text = "No text could be extracted from the resume"
    /\ req.detail.llm_calls = 0

\* The list fields of either schema's result.
ListFields ==
    {"skills", "technical_skills", "soft_skills", "experience", "education",
     "languages"}

SkillsFields == {"skills", "technical_skills", "soft_skills"}

\* C8: for either schema variant and any reply, whenever parse_resume
\* returns a result, every list field of it is a list and every skills list
\* in it is free of duplicates under case-insensitive comparison.
C8_ResultLists ==
    (req.pc = "done" /\ req.op = "parse_resume" /\ req.outcome = "returned")
    => /\ "skills" \in DOMAIN req.detail.value
       /\ \A key \in ListFields \cap DOMAIN req.detail.value :
             DOMAIN req.detail.value[key] = 1..Len(req.detail.value[key])
       /\ \A key \in SkillsFields \cap DOMAIN req.detail.value :
             NoCaseDuplicates(req.detail.value[key])

\* The signals _calculate_profile_completion scores, read from the store.
NameSet(u) == users[u].first_name # <<>> /\ users[u].last_name # <<>>

EmailSet(u) == users[u].email # <<>>

RoleSet(u) == users[u].role # <<>>

CompletedOf(u) ==
    {pk \in DOMAIN resumes : resumes[pk].user = u /\ resumes[pk].status = "completed"}

HasResume(u) == CompletedOf(u) # {}

\* The most recently created completed row of u has a non-empty skill list.
LatestHasSkills(u) ==
    \E pk \in CompletedOf(u) :
       /\ \A other \in CompletedOf(u) : other <= pk
       /\ Len(resumes[pk].skills) > 0

Weight(signal, points) == IF signal THEN points ELSE 0

\* A request of u that has just run _calculate_profile_completion.
Recalculated(u) ==
    /\ req.pc = "done" /\ req.user = u
    /\ \/ req.op = "upload" /\ req.outcome = "success"
       \/ req.op = "delete_resume" /\ req.outcome = "deleted"
       \/ req.op = "profile_completion" /\ req.outcome = "recalculated"

\* C9: _calculate_profile_completion stores the sum of the weights of the
\* signals that hold (name 20, email 20, a completed resume 30, the most
\* recently created completed resume has skills 15, role 15); the score is
\* in 0..100, is 100 with no missing fields when all hold, and 85 with
\* "role" among the missing fields when only the role is unset.
C9_Score ==
    \A u \in UserIds :
       Recalculated(u)
       => LET row == CompletionOf(completions, u) IN
          /\ row.completion_score =
                 Weight(NameSet(u), 20) + Weight(EmailSet(u), 20)
               + Weight(HasResume(u), 30) + Weight(LatestHasSkills(u), 15)
               + Weight(RoleSet(u), 15)
          /\ row.completion_score \in 0..100
          /\ (NameSet(u) /\ EmailSet(u) /\ HasResume(u) /\ LatestHasSkills(u)
              /\ RoleSet(u))
             => row.completion_score = 100 /\ row.missing_fields = <<>>
          /\ (NameSet(u) /\ EmailSet(u) /\ HasResume(u) /\ LatestHasSkills(u)
              /\ ~RoleSet(u))
             => /\ row.completion_score = 85
                /\ \E i \in 1..Len(row.missing_fields) : row.missing_fields[i] = "role"

\* C9 witness: a recalculation for a user with two completed resumes, the
\* older with skills and the newer without: the skills points are not given.
C9_Witness ==
    \E u \in UserIds :
       /\ Recalculated(u)
       /\ Cardinality(CompletedOf(u)) = 2
       /\ ~LatestHasSkills(u)
       /\ \E pk \in CompletedOf(u) : Len(resumes[pk].skills) > 0
       /\ NameSet(u) /\ EmailSet(u) /\ RoleSet(u)
       /\ CompletionOf(completions, u).completion_score = 85

\* A request of u that has read or written u's ProfileCompletion.
UsedCompletion(u) ==
    \/ Recalculated(u)
    \/ /\ req.pc = "done" /\ req.user = u
       /\ req.op \in {"profile_completion", "api_profile_score"}

\* C10: after any sequence of recalculations, profile-completion views and
\* profile-score queries for a user exactly one ProfileCompletion row
\* exists for that user; there are never two rows for the same user.
C10_OneCompletionPerUser ==
    \A u \in UserIds :
       /\ Cardinality(CompletionRows(completions, u)) <= 1
       /\ UsedCompletion(u) => Cardinality(CompletionRows(completions, u)) = 1

\* C10 witness: a refresh of the profile view overwrote the row an earlier
\* request had created: the one row now holds a computed score.
C10_Witness ==
    \E u \in UserIds :
       /\ req.pc = "done" /\ req.user = u
       /\ req.op = "profile_completion" /\ req.outcome = "recalculated"
       /\ Cardinality(CompletionRows(completions, u)) = 1
       /\ CompletionOf(completions, u).completion_score = 100
       /\ HasResume(u)

\* C11: recalculating profile completion a second time, with no change to
\* the user or the user's resumes since the first recalculation, leaves the
\* same score, the same missing fields and the same suggestions, in the same
\* order: in the state a recalculating request ends in, one more
\* _calculate_profile_completion leaves the table as it is.
C11_RecalculationIdempotent ==
    \A u \in UserIds :
       Recalculated(u)
       => LET again == _calculate_profile_completion(users[u], u, resumes, completions)
          IN  /\ Len(again) = Len(completions)
              /\ CompletionOf(again, u).completion_score
                    = CompletionOf(completions, u).completion_score
              /\ CompletionOf(again, u).missing_fields
                    = CompletionOf(completions, u).missing_fields
              /\ CompletionOf(again, u).suggestions
                    = CompletionOf(completions, u).suggestions

\* C11 witness: a recalculation that stored two missing fields and two
\* suggestions, in order.
C11_Witness ==
    \E u \in UserIds :
       /\ Recalculated(u)
       /\ CompletionOf(completions, u).missing_fields = <<"name", "resume">>
       /\ CompletionOf(completions, u).suggestions
             = <<"Complete your name", "Upload your resume to boost your profile">>

\* The applicant's skill list of an application: the skills of the resume
\* it references.
ApplicantSkills(application) == resumes[application.resume[1]].skills

\* n is x / y rounded to the nearest whole number.
Nearest(n, x, y) == 2 * (n * y - x) <= y /\ 2 * (x - n * y) <= y

\* C12: for any applicant skill list and any required-skill list the
\* application stores matching = required intersected with the applicant's
\* skills, missing = required minus matching, and score = 100 * |matching| /
\* |required| rounded to two decimals (0 when required is empty); matching
\* and missing are disjoint and together equal the required set; applicant
\* {Python, SQL, Go} against required {Python, Go, Rust} stores matching
\* {Python, Go}, missing {Rust} and score 66.67.
C12_MatchStored ==
    \A i \in 1..Len(applications) :
       LET application == applications[i]
           required    == SetOf(jobs[application.job].required_skills)
           matching    == SetOf(application.matching_skills)
           missing     == SetOf(application.missing_skills)
       IN  Truthy(application.resume)
           => /\ matching = required \cap SetOf(ApplicantSkills(application))
              /\ missing = required \ matching
              /\ matching \cap missing = {}
              /\ matching \cup missing = required
              /\ Truthy(application.match_score)
              /\ IF required = {}
                 THEN application.match_score = Some(0)
                 ELSE Nearest(application.match_score[1],
                              100 * 100 * Cardinality(matching), Cardinality(required))
              /\ (SetOf(ApplicantSkills(application)) = {Python, SQL, Go}
                  /\ required = {Python, Go, Rust})
                 => /\ matching = {Python, Go}
                    /\ missing = {Rust}
                    /\ application.match_score = Some(6667)

\* A reply's work-experience entries with every end_date set to a date.
Dated(obj) ==
    [obj EXCEPT !.experience =
        JList([i \in 1..Len(obj.experience.v) |->
                 JObj([k \in DOMAIN obj.experience.v[i].v \cup {"end_date"} |->
                         IF k = "end_date" THEN JStr(<<"2", "0", "2", "1">>)
                         ELSE obj.experience.v[i].v[k]])])]

\* A reply the rich schema has nothing to object to, its end dates aside.
ValidButEndDates(obj) ==
    /\ "experience" \in DOMAIN obj
    /\ obj.experience.t = "list"
    /\ \A i \in 1..Len(obj.experience.v) : obj.experience.v[i].t = "obj"
    /\ ResumeParsedSchemaError(Dated(obj)) = ""

\* An entry's end date is absent from the reply (no key, or null) or blank
\* (the empty text).
NoEndDate(entry) ==
    \/ "end_date" \notin DOMAIN entry
    \/ entry.end_date.t = "null"
    \/ entry.end_date = JStr(<<>>)

\* C13: a work-experience entry of the rich schema whose end date is blank
\* or absent in the reply is parsed successfully with end_date "Present";
\* an entry with a non-blank end date keeps that text unchanged.
C13_EndDatePresent ==
    (/\ req.pc = "done" /\ req.op = "parse_resume"
     /\ ~req.detail.call.use_simple
     /\ req.detail.llm_calls = 1
     /\ req.detail.call.llm.json
     /\ ValidButEndDates(req.detail.call.llm.obj))
    => /\ req.outcome = "returned"
       /\ \A i \in 1..Len(req.detail.call.llm.obj.experience.v) :
             LET entry == req.detail.call.llm.obj.experience.v[i].v IN
             IF NoEndDate(entry)
             THEN req.detail.value.experience[i].end_date = Present
             ELSE (entry.end_date.t = "str" /\ ~Blank(entry.end_date.v))
                  => req.detail.value.experience[i].end_date = entry.end_date.v

\* The declared types extract_text supports, in lower case.
SupportedTypes == {<<"p", "d", "f">>, <<"d", "o", "c", "x">>, <<"d", "o", "c">>}

\* C14: extract_text with a declared type that, compared case-insensitively,
\* is not pdf, docx or doc fails with the unsupported-file-type error
\* carrying the type string, without opening the file; any casing of pdf,
\* docx or doc is dispatched to the matching extractor, which opens the file.
C14_UnsupportedType ==
    (/\ req.pc = "done" /\ req.op = "parse_resume"
     /\ Truthy(req.detail.call.key))
    => IF Lower(req.detail.call.file_type) \notin SupportedTypes
       THEN /\ req.outcome = "raised"
            /\ req.detail.exc.text = "Unsupported file type: "
            /\ req.detail.exc.arg = req.detail.call.file_type
            /\ req.detail.file_opens = 0
            /\ req.detail.llm_calls = 0
       ELSE /\ req.detail.file_opens = 1
            /\ req.detail.exc.text # "Unsupported file type: "
            /\ ~req.detail.call.file.readable
               => /\ req.outcome = "raised"
                  /\ req.detail.exc.text =
                        IF Lower(req.detail.call.file_type) = <<"p", "d", "f">>
                        THEN "Error reading PDF: " ELSE "Error reading DOCX: "
                  /\ req.detail.exc.arg = req.detail.call.file.cause

\* C14 witness: a readable file with text declared as exe; the call raised
\* the unsupported-type error for "exe" and opened nothing.
C14_Witness ==
    /\ req.pc = "done" /\ req.op = "parse_resume" /\ req.outcome = "raised"
    /\ Truthy(req.detail.call.key)
    /\ req.detail.call.file.readable
    /\ ~Blank(RawText(req.detail.call.file))
    /\ req.detail.call.file_type = <<"e", "x", "e">>
    /\ req.detail.exc = [text |-> "Unsupported file type: ", arg |-> <<"e", "x", "e">>]
    /\ req.detail.file_opens = 0
    /\ req.detail.llm_calls = 0

\* str(e) of the error ResumeParser.__init__ raises without a credential.
CredentialError ==
    [text |-> "OpenAI API key not found. Please set GROQ_API_KEY in settings or .env",
     arg  |-> <<>>]

\* C15: when no API credential is configured, constructing the parser fails
\* before any file is opened and before any model-service call; in
\* _process_resume this happens after the row was persisted as processing
\* and leaves the row failed with the credential error as its error detail.
C15_MissingCredential ==
    [][(req.pc = "parse" /\ req'.pc # "parse" /\ req'.api_key = Some(<<>>))
       => /\ resumes[req.pk].status = "processing"
          /\ req'.pc = "done" /\ req'.outcome = "processing_error"
          /\ req'.detail = CredentialError
          /\ req'.parser_calls = 0
          /\ req'.file_opens = 0
          /\ req'.llm_calls = 0
          /\ resumes'[req.pk].status = "failed"
          /\ resumes'[req.pk].error_message = Some(CredentialError)]_vars

\* C15 witness: an upload that found no credential: its row is failed with
\* the credential error, nothing was opened and the service was not called.
C15_Witness ==
    /\ req.pc = "done" /\ req.op = "upload" /\ req.api_key = Some(<<>>)
    /\ resumes[req.pk].status = "failed"
    /\ resumes[req.pk].error_message = Some(CredentialError)
    /\ req.file_opens = 0 /\ req.llm_calls = 0

\* The stored ProfileCompletion of u holds what _calculate_profile_completion
\* computes from the given user row and resume table.
StoredFrom(table, u, user, rows) ==
    /\ CompletionRows(table, u) # {}
    /\ CompletionOf(table, u).completion_score
          = ProfileDefaults(user, u, rows).completion_score
    /\ CompletionOf(table, u).missing_fields
          = ProfileDefaults(user, u, rows).missing_fields
    /\ CompletionOf(table, u).suggestions
          = ProfileDefaults(user, u, rows).suggestions

\* C16: within _process_resume the profile auto-fill and the recalculation
\* run if and only if the row has been persisted as completed in that call,
\* auto-fill first and recalculation second; when processing fails before
\* completion neither runs, so the user's name and the stored
\* ProfileCompletion are unchanged.  Three step properties: an upload's step
\* before the completed save changes neither table; a step that changes one
\* of them within an upload starts with the row persisted as completed; and
\* the step that ends a successful upload stores the auto-filled user and a
\* ProfileCompletion computed from that auto-filled user.
C16_AfterCompletionOnly ==
    /\ [][(req.op = "upload" /\ req.pc \in {"begin", "parse"})
          => users' = users /\ completions' = completions]_vars
    /\ [][(req'.op = "upload" /\ (users' # users \/ completions' # completions))
          => /\ req.pc = "profile"
             /\ resumes[req.pk].status = "completed"]_vars
    /\ [][(req.pc = "profile" /\ req'.pc = "done" /\ req'.outcome = "success")
          => /\ resumes[req.pk].status = "completed"
             /\ users' = [users EXCEPT ![req.user] =
                             _update_user_profile(users[req.user], req.resume_data)]
             /\ StoredFrom(completions', req.user, users'[req.user], resumes')]_vars

\* C16 witness: the first upload of a user without a name succeeded: the
\* name was filled in from the resume and the stored profile completion
\* does not list the name as missing.
C16_Witness ==
    /\ req.pc = "done" /\ req.op = "upload" /\ req.outcome = "success"
    /\ nextPk = 2
    /\ users[req.user].first_name = Ann
    /\ users[req.user].last_name = <<"M", " ", "L", "e", "e">>
    /\ resumes[req.pk].status = "completed"
    /\ \A i \in 1..Len(CompletionOf(completions, req.user).missing_fields) :
          CompletionOf(completions, req.user).missing_fields[i] # "name"

\* C17: after a successful _process_resume whose reply gave no
\* total_experience_years (omitted or null) the stored experience_years is
\* 0, not null; when the reply gave a value, that value is stored.
C17_ExperienceYearsDefault ==
    (req.pc = "done" /\ req.op = "upload" /\ req.outcome = "success")
    => resumes[req.pk].experience_years =
          IF req.resume_data.total_experience_years = None
          THEN Some(0)
          ELSE req.resume_data.total_experience_years

\* The extracted names of the replies: "Ann  M Lee" and "Bo".
AnnMLee == Ann \o <<" ", " ">> \o <<"M">> \o <<" ">> \o Lee

Bo == <<"B", "o">>

\* C18: the profile auto-fill changes the user's name only when first and
\* last name are both unset and the extracted name is non-empty; it then
\* sets first name to the first whitespace-separated token and last name to
\* the remaining tokens joined by single spaces (empty for one token); if
\* either is already set both are left unchanged.  Stated over the step of
\* _process_resume that runs the auto-fill; nothing else of the user changes.
C18_AutoFillFrame ==
    [][req.pc = "profile"
       => LET before == users[req.user]
              after  == users'[req.user]
              name   == req.resume_data.name
          IN  /\ after.email = before.email /\ after.role = before.role
              /\ (before.first_name # <<>> \/ before.last_name # <<>>)
                 => after = before
              /\ after # before
                 => /\ before.first_name = <<>> /\ before.last_name = <<>>
                    /\ name # <<>>
                    /\ after.first_name = Split(name)[1]
                    /\ after.last_name = Join(Tail(Split(name)), <<" ">>)
                    /\ name = AnnMLee
                       => /\ after.first_name = Ann
                          /\ after.last_name = <<"M", " ", "L", "e", "e">>
                    /\ name = Bo
                       => after.first_name = Bo /\ after.last_name = <<>>
              /\ (/\ before.first_name = <<>> /\ before.last_name = <<>>
                  /\ ~Blank(name) /\ req'.outcome = "success")
                 => after.first_name # <<>>]_vars

\* C18 witness: a user without a name uploaded a resume whose extracted name
\* is the single token "Bo": first name Bo, last name empty.
C18_Witness ==
    /\ req.pc = "done" /\ req.op = "upload" /\ req.outcome = "success"
    /\ req.resume_data.name = Bo
    /\ users[req.user].first_name = Bo
    /\ users[req.user].last_name = <<>>

\* C19: processing is single-attempt: the model service is invoked at most
\* once over a row's whole life, _process_resume runs at most once per row,
\* and a failed row stays failed in every later state (a retry is a new row
\* from a new upload).  As an invariant and step properties: a request
\* invokes the service at most once; primary keys are never reused; a row
\* enters processing only from pending, never returns to pending and never
\* leaves failed; and the service is invoked only in the step that takes
\* the request's own row out of processing.
C19_SingleAttempt ==
    /\ [](/\ req.llm_calls <= 1
          /\ \A pk \in DOMAIN resumes : pk < nextPk)
    /\ [][/\ nextPk' >= nextPk
          /\ \A pk \in DOMAIN resumes' \ DOMAIN resumes :
                pk = nextPk /\ resumes'[pk].status = "pending"
          /\ \A pk \in DOMAIN resumes \cap DOMAIN resumes' :
                /\ resumes[pk].status = "failed" => resumes'[pk].status = "failed"
                /\ resumes'[pk].status = "pending" => resumes[pk].status = "pending"
                /\ (resumes'[pk].status = "processing"
                    /\ resumes[pk].status # "processing")
                   => resumes[pk].status = "pending" /\ pk = req.pk
          /\ (req'.op = "upload" /\ req'.llm_calls # req.llm_calls)
             => /\ req.pc = "parse" /\ req.llm_calls = 0 /\ req'.llm_calls = 1
                /\ resumes[req.pk].status = "processing"
                /\ resumes'[req.pk].status \in {"completed", "failed"}]_vars

\* C19 witness: the first upload failed after the service was invoked and
\* its row is still failed when a second upload, a new row, has completed
\* with one invocation of its own.
C19_Witness ==
    /\ req.pc = "done" /\ req.op = "upload" /\ req.outcome = "success"
    /\ req.pk = 2 /\ req.llm_calls = 1
    /\ 1 \in DOMAIN resumes
    /\ resumes[1].status = "failed"
    /\ resumes[1].error_message
          = Some([text |-> "", arg |-> <<"t", "i", "m", "e", "o", "u", "t">>])
    /\ resumes[2].status = "completed"

\* C20: the score, missing fields and suggestions shown by the
\* profile-completion view, and those returned by the profile-score API,
\* always equal what _calculate_profile_completion would compute from the
\* user's current name, email, role and resumes at the time of the request.
C20_ShownIsCurrent ==
    (req.pc = "done" /\ req.op \in {"profile_completion", "api_profile_score"})
    => /\ req.detail.completion_score
             = ProfileDefaults(users[req.user], req.user, resumes).completion_score
       /\ req.detail.missing_fields
             = ProfileDefaults(users[req.user], req.user, resumes).missing_fields
       /\ req.detail.suggestions
             = ProfileDefaults(users[req.user], req.user, resumes).suggestions

\* The labels of a missing-field list, as a set.
Labels(list) == {list[i] : i \in 1..Len(list)}

\* C21: a resume deletion removes the stored file, deletes the row and then
\* recalculates: when the request ends the file and the row are gone and the
\* stored ProfileCompletion is the one of the state without the deleted row;
\* when the deleted row was the user's only completed resume the score holds
\* neither the 30 resume points nor the 15 skills points and "resume" is
\* among the missing fields.
C21_DeleteThenRecalculate ==
    \A u \in UserIds :
       (req.pc = "done" /\ req.user = u /\ req.op = "delete_resume"
        /\ req.outcome = "deleted")
       => LET row == CompletionOf(completions, u) IN
          /\ req.pk \notin storage
          /\ req.pk \notin DOMAIN resumes
          /\ Cardinality(CompletionRows(completions, u)) = 1
          /\ row.completion_score =
                 Weight(NameSet(u), 20) + Weight(EmailSet(u), 20)
               + Weight(HasResume(u), 30) + Weight(LatestHasSkills(u), 15)
               + Weight(RoleSet(u), 15)
          /\ ("resume" \in Labels(row.missing_fields)) <=> ~HasResume(u)
          /\ (req.inst.status = "completed" /\ ~HasResume(u))
             => /\ row.completion_score =
                      Weight(NameSet(u), 20) + Weight(EmailSet(u), 20)
                    + Weight(RoleSet(u), 15)
                /\ "resume" \in Labels(row.missing_fields)

\* C21 witness: the user's only completed resume, one with skills, has been
\* deleted: of the 100 points 55 are left and "resume" is missing.
C21_Witness ==
    \E u \in UserIds :
       /\ req.pc = "done" /\ req.user = u /\ req.op = "delete_resume"
       /\ req.outcome = "deleted"
       /\ req.inst.status = "completed" /\ Len(req.inst.skills) > 0
       /\ ~HasResume(u)
       /\ NameSet(u) /\ EmailSet(u) /\ RoleSet(u)
       /\ CompletionOf(completions, u).completion_score = 55
       /\ CompletionOf(completions, u).missing_fields = <<"resume">>

\* The signals of u that do not hold, as missing-field labels.
FalseSignals(u) ==
       (IF NameSet(u) THEN {} ELSE {"name"})
    \cup (IF EmailSet(u) THEN {} ELSE {"email"})
    \cup (IF HasResume(u) THEN {} ELSE {"resume"})
    \cup (IF RoleSet(u) THEN {} ELSE {"role"})

\* The suggestion that goes with a missing-field label.
SuggestionFor(label) ==
    CASE label = "name"   -> "Complete your name"
      [] label = "email"  -> "Add your email address"
      [] label = "resume" -> "Upload your resume to boost your profile"
      [] label = "role"   -> "Select your role (Candidate/Recruiter)"

SkillsSuggestion == "Add more skills to your resume"

\* C22: after a recalculation for u the missing-field list holds exactly
\* the labels of the signals among name, email, resume and role that do not
\* hold, each once; the suggestion list holds exactly one suggestion for
\* each of them, and in addition the "add more skills" suggestion exactly
\* when u has a completed resume and the most recently created completed
\* one has no skills (never when u has no completed resume).
C22_MissingAndSuggestions ==
    \A u \in UserIds :
       Recalculated(u)
       => LET row   == CompletionOf(completions, u)
              extra == HasResume(u) /\ ~LatestHasSkills(u)
          IN  /\ Labels(row.missing_fields) = FalseSignals(u)
              /\ Len(row.missing_fields) = Cardinality(FalseSignals(u))
              /\ Labels(row.suggestions) =
                    {SuggestionFor(label) : label \in FalseSignals(u)}
                    \cup (IF extra THEN {SkillsSuggestion} ELSE {})
              /\ Len(row.suggestions) =
                    Cardinality(FalseSignals(u)) + (IF extra THEN 1 ELSE 0)
              /\ ~HasResume(u) => SkillsSuggestion \notin Labels(row.suggestions)

\* C22 witness: a recalculation for a user without a role whose most recent
\* completed resume has no skills: one missing field, two suggestions.
C22_Witness ==
    \E u \in UserIds :
       /\ Recalculated(u)
       /\ HasResume(u) /\ ~LatestHasSkills(u)
       /\ ~RoleSet(u) /\ NameSet(u) /\ EmailSet(u)
       /\ CompletionOf(completions, u).missing_fields = <<"role">>
       /\ CompletionOf(completions, u).suggestions =
             <<SkillsSuggestion, "Select your role (Candidate/Recruiter)">>

\* The instances that have stored a calculation for u.
Writers(u) == {p \in Workers : procs[p].user = u /\ procs[p].wrote_at > 0}

\* The instance that stored last.
LastWriter(u) ==
    CHOOSE p \in Writers(u) : \A q \in Writers(u) : procs[q].wrote_at <= procs[p].wrote_at

\* C23: when recalculations for the same user run side by side, in any
\* interleaving of their steps, the user never has two ProfileCompletion
\* rows, and once a calculation has been stored the row's score, missing
\* fields and suggestions are all the ones of the calculation stored last;
\* when both have returned there is exactly one row.
C23_LastWriteWins ==
    \A u \in UserIds :
       /\ Cardinality(CompletionRows(completions, u)) <= 1
       /\ Writers(u) # {}
          => /\ Cardinality(CompletionRows(completions, u)) = 1
             /\ LET row  == CompletionOf(completions, u)
                    last == procs[LastWriter(u)].defaults
                IN  /\ row.completion_score = last.completion_score
                    /\ row.missing_fields = last.missing_fields
                    /\ row.suggestions = last.suggestions

\* C23 witness: two recalculations have both stored, the one that stored
\* last having read the resumes before the other deleted one: the row holds
\* its three values, which are no longer the ones of the stored resumes.
C23_Witness ==
    /\ \A p \in Workers : procs[p].pc = "done" /\ procs[p].wrote_at > 0
    /\ procs[1].defaults.suggestions # procs[2].defaults.suggestions
    /\ procs[1].defaults.completion_score # procs[2].defaults.completion_score
    /\ CompletionOf(completions, 1).completion_score
          = procs[LastWriter(1)].defaults.completion_score
    /\ CompletionOf(completions, 1).completion_score
          # ProfileDefaults(users[1], 1, resumes).completion_score

\* C24: no job and applicant ever have two JobApplication rows, whatever
\* apply and withdraw requests run and however their steps interleave; and
\* an apply request of an applicant who has a row for the job that the
\* request did not create itself (a withdrawn row included) inserts nothing,
\* changes no row and leaves the job's applications counter alone.
C24_OneApplicationPerPair ==
    /\ [](\A slug \in DOMAIN jobs, u \in UserIds :
             Cardinality(ApplicationRows(applications, slug, u)) <= 1)
    /\ [][\A p \in Workers :
             (/\ procs'[p] # procs[p]
              /\ procs'[p].op = "apply_job"
              /\ procs[p].pc \notin {"score", "count"}
              /\ ApplicationRows(applications, procs'[p].slug, procs'[p].user) # {})
             => /\ applications' = applications
                /\ jobs' = jobs]_vars

\* C24 witness: two apply requests of one applicant for one job ran side by
\* side, both got past the "already applied" query, and the insert of the
\* second was refused: one row, counted once.
C24_Witness ==
    /\ procs[1].op = "apply_job" /\ procs[2].op = "apply_job"
    /\ procs[1].user = procs[2].user /\ procs[1].slug = procs[2].slug
    /\ procs[1].outcome = "applied" /\ procs[2].outcome = "IntegrityError"
    /\ Cardinality(ApplicationRows(applications, "dev", procs[1].user)) = 1
    /\ jobs["dev"].applications_count = 1

\* The applications of a job that are not withdrawn.
Standing(slug) ==
    {i \in 1..Len(applications) :
        applications[i].job = slug /\ applications[i].status # "withdrawn"}

\* C25: with apply and withdraw requests running one at a time, a job's
\* applications counter is never negative and equals the number of the
\* job's applications that are not withdrawn; a withdrawal of an application
\* that is already withdrawn leaves the counter as it was.
C25_CounterMatches ==
    \A slug \in DOMAIN jobs :
       /\ jobs[slug].applications_count >= 0
       /\ jobs[slug].applications_count = Cardinality(Standing(slug))

\* C26: when two different candidates apply to the same job side by side,
\* in any interleaving of the two requests, both applications are created
\* and the job's applications counter ends 2 higher than before (it starts
\* at 0): no increment is lost.
C26_NoLostIncrement ==
    (/\ \A p \in Workers : procs[p].op = "apply_job" /\ procs[p].outcome = "applied"
     /\ procs[1].user # procs[2].user
     /\ procs[1].slug = procs[2].slug)
    => /\ Len(applications) = 2
       /\ jobs[procs[1].slug].applications_count = 2

\* Whether u has job slug saved.
IsSaved(table, u, slug) == SavedRows(table, u, slug) # {}

\* The SavedJob table one save_job call of u for slug leaves.
Toggled(table, u, slug) ==
    LET got == SavedJobGetOrCreate(table, u, slug)
    IN  IF got.created THEN got.table ELSE SavedJobDelete(got.table, u, slug)

\* C28: save_job is a toggle.  No user and job ever have two SavedJob rows;
\* a call for a pair without a row creates one and answers saved=true, a
\* call for a pair with a row deletes it and answers saved=false, and no
\* other pair is touched; two calls in a row leave every pair saved or not
\* as it was.
C28_SaveJobToggles ==
    /\ [](\A u \in UserIds, slug \in DOMAIN jobs :
             /\ Cardinality(SavedRows(saved, u, slug)) <= 1
             /\ \A v \in UserIds, other \in DOMAIN jobs :
                   IsSaved(Toggled(Toggled(saved, u, slug), u, slug), v, other)
                      <=> IsSaved(saved, v, other))
    /\ [][(req.pc = "idle" /\ req'.op = "save_job" /\ req'.outcome = "ok")
          => \E slug \in DOMAIN jobs :
                /\ req'.detail.saved <=> ~IsSaved(saved, req'.user, slug)
                /\ IsSaved(saved', req'.user, slug) <=> req'.detail.saved
                /\ \A v \in UserIds, other \in DOMAIN jobs :
                      <<v, other>> # <<req'.user, slug>>
                      => SavedRows(saved', v, other) # {}
                            <=> SavedRows(saved, v, other) # {}]_vars

\* C28 witness: a second save_job call has removed the row the first had
\* created, answering saved=false, while the row of another user stays.
C28_Witness ==
    /\ req.pc = "done" /\ req.op = "save_job" /\ req.outcome = "ok"
    /\ ~req.detail.saved
    /\ ~IsSaved(saved, req.user, "dev")
    /\ \E v \in UserIds : v # req.user /\ IsSaved(saved, v, "dev")

\* The user whose request takes the step.
Actor == IF req.pc = "idle" THEN req'.user ELSE req.user

\* The ParsedResume rows of v, by primary key.
ResumesOf(table, v) == {<<pk, table[pk]>> : pk \in {k \in DOMAIN table : table[k].user = v}}

\* The ProfileCompletion rows of v.
CompletionsOf(table, v) == {table[i] : i \in CompletionRows(table, v)}

\* A request on one resume has just been answered with the resume.
ResumeServed ==
    /\ req.pc = "idle"
    /\ \/ req'.op \in {"resume_detail", "api_resume_status"} /\ req'.outcome = "ok"
       \/ req'.op = "delete_resume" /\ req'.outcome = "deleted"

\* C27: requests act on the requesting user's own data.  Resume detail,
\* resume deletion and the resume status query succeed only for a row the
\* requester owns; an application is created only with no resume or with a
\* completed resume its applicant owns, and the resume an application refers
\* to stays a completed resume of its applicant; a withdrawal changes
\* applications of the requester only; and no step of any request changes
\* the name, the ParsedResume rows or the ProfileCompletion of a user other
\* than the requester.
C27_OwnDataOnly ==
    /\ [](\A i \in 1..Len(applications) :
             applications[i].resume # None
             => /\ applications[i].resume[1] \in DOMAIN resumes
                /\ resumes[applications[i].resume[1]].user = applications[i].applicant
                /\ resumes[applications[i].resume[1]].status = "completed")
    /\ [][ResumeServed
          => /\ req'.pk \in DOMAIN resumes
             /\ resumes[req'.pk].user = req'.user]_vars
    /\ [][Len(applications') > Len(applications)
          => LET row == applications'[Len(applications')] IN
             /\ row.applicant = Actor
             /\ row.resume # None
                => /\ row.resume[1] \in DOMAIN resumes
                   /\ resumes[row.resume[1]].user = row.applicant
                   /\ resumes[row.resume[1]].status = "completed"]_vars
    /\ [][(req.pc = "idle" /\ req'.op = "withdraw_application")
          => \A i \in 1..Len(applications) :
                applications'[i] # applications[i]
                => applications[i].applicant = req'.user]_vars
    /\ [][\A v \in UserIds :
             v # Actor
             => /\ users'[v] = users[v]
                /\ ResumesOf(resumes', v) = ResumesOf(resumes, v)
                /\ CompletionsOf(completions', v) = CompletionsOf(completions, v)]_vars

\* C27 witness: a user asked to delete a resume that exists and belongs to
\* another user and was answered 404, the row staying in place, after that
\* user's own upload had filled in the user's own name.
C27_Witness ==
    /\ req.pc = "done" /\ req.op = "delete_resume" /\ req.outcome = "404"
    /\ req.pk \in DOMAIN resumes
    /\ resumes[req.pk].user # req.user
    /\ req.pk \in storage
    /\ users[req.user].first_name # <<>>
    /\ users[3 - req.user].first_name # <<>>
    /\ \E i \in 1..Len(applications) : applications[i].resume = Some(req.pk)

====
